---------------------------- MODULE Spec2Model ----------------------------
(***************************************************************************)
(* Model of the Skill_forge backend: the AI matching engine                *)
(* (backend/ai/ai_matching.py), the routes that call it and the routes     *)
(* that edit the records it reads.                                         *)
(*                                                                         *)
(* Conventions.                                                            *)
(*  - A MongoDB document is a function from field names to values; a      *)
(*    field that is missing from the document is missing from DOMAIN.      *)
(*  - A Python str is a tuple of one-character strings; a list is a tuple. *)
(*    The falsy values of both ("" and []) are <<>>, and None is <<>> too. *)
(*  - A float is a fixed-point integer with Scale units to 1.0.            *)
(*  - A collection is the tuple of its documents in retrieval order.       *)
(***************************************************************************)
EXTENDS Integers, Sequences, FiniteSets, TLC

None == <<>>

(* d.get(k): the field, or None when the document has no such field. *)
Get(d, k) == IF k \in DOMAIN d THEN d[k] ELSE None

(* Python truthiness of d.get(k) for str / list / document valued fields. *)
Truthy(d, k) == Get(d, k) # <<>>

(* update_one's {"$set": {k: v}} on one document. *)
SetField(d, k, v) == [f \in DOMAIN d \cup {k} |-> IF f = k THEN v ELSE d[f]]

(* find's projection {k: 0}. *)
Project(d, k) == [f \in DOMAIN d \ {k} |-> d[f]]

(* The elements of a list. *)
Elements(list) == {list[i] : i \in 1..Len(list)}

(* {"$set": u}: every field of u replaces or is added to d. *)
SetFields(d, u) == [f \in DOMAIN d \cup DOMAIN u |-> IF f \in DOMAIN u THEN u[f] ELSE d[f]]

---------------------------------------------------------------------------
(* Strings *)

RECURSIVE JoinWith(_, _)
(* sep.join(parts) *)
JoinWith(sep, parts) ==
    IF parts = <<>> THEN <<>>
    ELSE IF Len(parts) = 1 THEN parts[1]
    ELSE parts[1] \o sep \o JoinWith(sep, Tail(parts))

IsSpace(c) == c = " "

RECURSIVE LStrip(_)
LStrip(s) == IF s # <<>> /\ IsSpace(s[1]) THEN LStrip(Tail(s)) ELSE s

RECURSIVE RStrip(_)
RStrip(s) ==
    IF s # <<>> /\ IsSpace(s[Len(s)]) THEN RStrip(SubSeq(s, 1, Len(s) - 1)) ELSE s

(* str.strip() *)
Strip(s) == RStrip(LStrip(s))

(* str.lower() on one character, for the letters the model's strings use. *)
LowerChar(c) ==
    CASE c = "P" -> "p"
      [] c = "S" -> "s"
      [] c = "Q" -> "q"
      [] c = "A" -> "a"
      [] c = "B" -> "b"
      [] c = "C" -> "c"
      [] c = "D" -> "d"
      [] c = "E" -> "e"
      [] c = "F" -> "f"
      [] OTHER -> c

(* The string as it is written. *)
AsWritten(s) == s

Lower(s) == [i \in 1..Len(s) |-> LowerChar(s[i])]

DigitChar(d) == <<"0", "1", "2", "3", "4", "5", "6", "7", "8", "9">>[d + 1]

RECURSIVE NatStr(_)
NatStr(n) == IF n < 10 THEN <<DigitChar(n)>> ELSE NatStr(n \div 10) \o <<DigitChar(n % 10)>>

(* str(n) for a Python int. *)
IntStr(n) == IF n < 0 THEN <<"-">> \o NatStr(-n) ELSE NatStr(n)

(* int(x / d): true division then truncation toward zero. *)
TruncDiv(x, d) == IF x >= 0 THEN x \div d ELSE -((-x) \div d)

RECURSIVE Flatten(_)
Flatten(ss) == IF ss = <<>> THEN <<>> ELSE ss[1] \o Flatten(Tail(ss))

---------------------------------------------------------------------------
(* Text extraction *)

(* f"{s['name']} ({int(s['level']/10)} stars)" *)
SkillPhrase(s) ==
    s.name \o <<" ", "(">> \o IntStr(TruncDiv(s.level, 10))
           \o <<" ", "s", "t", "a", "r", "s", ")">>

HasName(s) == Truthy(s, "name")

(* [s for s in skills if isinstance(s, dict) and s.get("name")] *)
RECURSIVE NamedSkills(_)
NamedSkills(skills) ==
    IF skills = <<>> THEN <<>>
    ELSE (IF HasName(skills[1]) THEN <<skills[1]>> ELSE <<>>) \o NamedSkills(Tail(skills))

(* The parts one experience / education / portfolio entry contributes. *)
EntryParts(e, k1, k2) ==
    (IF Truthy(e, k1) THEN <<e[k1]>> ELSE <<>>) \o
    (IF Truthy(e, k2) THEN <<e[k2]>> ELSE <<>>)

ListParts(d, field, k1, k2) ==
    IF Truthy(d, field)
    THEN Flatten([i \in 1..Len(d[field]) |-> EntryParts(d[field][i], k1, k2)])
    ELSE <<>>

candidate_text_parts(candidate) ==
    (IF Truthy(candidate, "bio") THEN <<candidate.bio>> ELSE <<>>) \o
    (IF Truthy(candidate, "skills")
     THEN LET named == NamedSkills(candidate.skills)
          IN  <<JoinWith(<<" ">>, [i \in 1..Len(named) |-> SkillPhrase(named[i])])>>
     ELSE <<>>) \o
    ListParts(candidate, "experience", "role", "description") \o
    ListParts(candidate, "education", "degree", "institution") \o
    ListParts(candidate, "portfolio", "title", "description")

extract_candidate_text(candidate) == Strip(JoinWith(<<" ">>, candidate_text_parts(candidate)))

job_text_parts(job) ==
    (IF Truthy(job, "title") THEN <<job.title>> ELSE <<>>) \o
    (IF Truthy(job, "company") THEN <<job.company>> ELSE <<>>) \o
    (IF Truthy(job, "description") THEN <<job.description>> ELSE <<>>) \o
    (IF Truthy(job, "required_skills")
     THEN <<JoinWith(<<" ">>, job.required_skills)>> ELSE <<>>) \o
    (IF Truthy(job, "job_type") THEN <<job.job_type>> ELSE <<>>) \o
    (IF Truthy(job, "location") THEN <<job.location>> ELSE <<>>)

extract_job_text(job) == Strip(JoinWith(<<" ">>, job_text_parts(job)))

---------------------------------------------------------------------------
(* Numbers: a float x is the integer x * Scale. *)

Scale == 10^6

Min(a, b) == IF a <= b THEN a ELSE b
Max(a, b) == IF a >= b THEN a ELSE b

(* round(x, 3): to the nearest multiple of 0.001, ties to the even one. *)
Round3(x) ==
    LET unit == Scale \div 1000
        q    == x \div unit
        r    == x % unit
    IN  IF 2 * r > unit \/ (2 * r = unit /\ q % 2 = 1) THEN (q + 1) * unit ELSE q * unit

(* round(x, 1) of a percentage held as x * Scale. *)
Round1(x) ==
    LET unit == Scale \div 10
        q    == x \div unit
        r    == x % unit
    IN  IF 2 * r > unit \/ (2 * r = unit /\ q % 2 = 1) THEN (q + 1) * unit ELSE q * unit

ISqrt(n) == CHOOSE r \in 0..n : r * r <= n /\ (r + 1) * (r + 1) > n

---------------------------------------------------------------------------
(* The embedding provider: SentenceTransformer.encode, a deterministic     *)
(* function of the text.  The provider's vectors are normalised; the model's *)
(* provider maps a text to one of the integer vectors of norm 5 below,      *)
(* chosen by a checksum of the text's characters.                           *)

Alphabet ==
    <<" ", "(", ")", "-", "0", "1", "2", "3", "4", "5", "6", "7", "8", "9",
      "A", "B", "C", "D", "E", "F", "P", "Q", "S",
      "a", "b", "c", "d", "e", "f", "p", "q", "r", "s", "t">>

(* The position of a character in Alphabet, which lists the characters the  *)
(* model's strings use in code point order.                                 *)
CharCode(c) == CHOOSE i \in 1..Len(Alphabet) : Alphabet[i] = c

RECURSIVE Checksum(_)
Checksum(text) == IF text = <<>> THEN 0 ELSE (CharCode(text[1]) + 3 * Checksum(Tail(text))) % 101

UnitVectors ==
    << <<3, 4>>, <<4, 3>>, <<5, 0>>, <<0, 5>>, <<-3, 4>>, <<-4, -3>>,
       <<3, -4>>, <<-5, 0>>, <<4, -3>>, <<0, -5>>, <<-3, -4>> >>

model_encode(text) == UnitVectors[(Checksum(text) % Len(UnitVectors)) + 1]

---------------------------------------------------------------------------
(* Scoring *)

Dot(a, b) == a[1] * b[1] + a[2] * b[2]

(* np.linalg.norm: exact on the provider's vectors, whose norms are integers. *)
Norm(a) == ISqrt(Dot(a, a))

cosine_similarity(a, b) ==
    IF a = None \/ b = None THEN 0
    ELSE LET denom == Norm(a) * Norm(b)
         IN  IF denom = 0 THEN 0 ELSE (Dot(a, b) * Scale) \div denom

(* cand_skills[name]: the level of the last skill with that lower-cased name, *)
(* as the dict comprehension keeps it; <<>> when no skill has the name.       *)
RECURSIVE cand_skills(_, _)
cand_skills(skills, name) ==
    IF skills = <<>> THEN <<>>
    ELSE LET last == skills[Len(skills)]
         IN  IF HasName(last) /\ Lower(last.name) = name THEN <<last.level>>
             ELSE cand_skills(SubSeq(skills, 1, Len(skills) - 1), name)

RECURSIVE matched_weight(_, _)
(* Sum of the levels of the required skills the candidate has. *)
matched_weight(skills, required) ==
    IF required = <<>> THEN 0
    ELSE LET hit == cand_skills(skills, required[1])
         IN  (IF hit = <<>> THEN 0 ELSE hit[1]) + matched_weight(skills, Tail(required))

calculate_skill_match(candidate, job) ==
    IF ~Truthy(job, "required_skills") THEN 0
    ELSE IF ~Truthy(candidate, "skills") THEN 0
    ELSE LET required     == [i \in 1..Len(job.required_skills) |-> Lower(job.required_skills[i])]
             total_weight == Len(required)
         IN  IF total_weight = 0 THEN 0
             ELSE (matched_weight(candidate.skills, required) * Scale) \div (100 * total_weight)

---------------------------------------------------------------------------
(* Python's float is binary64: a significand m of 53 binary digits, the     *)
(* first of them 1, and the exponent e of that first digit; 0.0 has no      *)
(* digits. Every operation returns the representable value nearest to the   *)
(* exact result, of two equally near the one whose last digit is 0.         *)
(* _calculate_skill_match only divides and adds values that are not         *)
(* negative. The arithmetic works on the digits six at a time (limbs).      *)

Zero == [m |-> <<>>, e |-> 0]

Zeros(n) == [i \in 1..n |-> 0]

RECURSIVE Binary(_)
(* The binary digits of a natural number, the most significant first. *)
Binary(n) == IF n = 0 THEN <<>> ELSE Binary(n \div 2) \o <<n % 2>>

(* The leading zeros that make the number of digits a multiple of six. *)
Padding(digits) == (6 - (Len(digits) % 6)) % 6

(* The digits, after their padding, six at a time. *)
Limbs(digits) ==
    LET d == Zeros(Padding(digits)) \o digits
    IN  [j \in 1..(Len(d) \div 6) |->
            32 * d[6 * j - 5] + 16 * d[6 * j - 4] + 8 * d[6 * j - 3]
              + 4 * d[6 * j - 2] + 2 * d[6 * j - 1] + d[6 * j]]

(* The binary digits of limbs. *)
Digits(limbs) ==
    [i \in 1..(6 * Len(limbs)) |->
        LET limb == limbs[(i - 1) \div 6 + 1]
            k    == (i - 1) % 6
        IN  (CASE k = 0 -> limb \div 32
               [] k = 1 -> limb \div 16
               [] k = 2 -> limb \div 8
               [] k = 3 -> limb \div 4
               [] k = 4 -> limb \div 2
               [] k = 5 -> limb) % 2]

(* digits + 1, one digit longer. *)
Increment(digits) ==
    LET n == Len(digits)
        carry(i) == \A k \in (i + 1)..n : digits[k] = 1
    IN  [i \in 1..(n + 1) |->
            IF i = 1 THEN (IF carry(0) THEN 1 ELSE 0)
            ELSE IF carry(i - 1) THEN 1 - digits[i - 1] ELSE digits[i - 1]]

(* The float nearest to the exact value whose binary digits are `digits`,   *)
(* the first of exponent e, followed by more non-zero digits iff `sticky`.  *)
Rounded(digits, e, sticky) ==
    IF \A i \in 1..Len(digits) : digits[i] = 0 THEN Zero
    ELSE LET first  == CHOOSE i \in 1..Len(digits) :
                           digits[i] = 1 /\ \A k \in 1..(i - 1) : digits[k] = 0
             padded == SubSeq(digits, first, Len(digits)) \o Zeros(54)
             m      == SubSeq(padded, 1, 53)
             more   == sticky \/ \E i \in 55..Len(padded) : padded[i] = 1
             up     == padded[54] = 1 /\ (more \/ m[53] = 1)
             inc    == Increment(m)
             e1     == e - (first - 1)
         IN  IF ~up THEN [m |-> m, e |-> e1]
             ELSE IF inc[1] = 1 THEN [m |-> SubSeq(inc, 1, 53), e |-> e1 + 1]
             ELSE [m |-> Tail(inc), e |-> e1]

(* float(n) of an int n >= 0. *)
F64(n) == Rounded(Binary(n), Len(Binary(n)) - 1, FALSE)

RECURSIVE LongDivision(_, _, _)
(* The limbs q of the quotient of (r, limbs) by d, and the remainder. *)
LongDivision(limbs, r, d) ==
    IF limbs = <<>> THEN [q |-> <<>>, r |-> r]
    ELSE LET x    == 64 * r + limbs[1]
             rest == LongDivision(Tail(limbs), x % d, d)
         IN  [q |-> <<x \div d>> \o rest.q, r |-> rest.r]

(* a / d for a float a and a whole number d >= 1 (100.0, total_weight). *)
F64Div(a, d) ==
    IF a = Zero THEN Zero
    ELSE LET digits   == a.m \o Zeros(Len(Binary(d)) + 1)
             division == LongDivision(Limbs(digits), 0, d)
         IN  Rounded(Digits(division.q), a.e + Padding(digits), division.r # 0)

RECURSIVE Sum(_, _, _)
(* The limbs of x + y + carry for x and y of one length, one limb longer. *)
Sum(x, y, carry) ==
    IF x = <<>> THEN <<carry>>
    ELSE LET n == Len(x)
             t == x[n] + y[n] + carry
         IN  Sum(SubSeq(x, 1, n - 1), SubSeq(y, 1, n - 1), t \div 64) \o <<t % 64>>

(* a + b *)
F64Add(a, b) ==
    IF a = Zero THEN b
    ELSE IF b = Zero THEN a
    ELSE LET hi    == IF a.e >= b.e THEN a ELSE b
             lo    == IF a.e >= b.e THEN b ELSE a
             shift == hi.e - lo.e
             x     == hi.m \o Zeros(shift)
             y     == Zeros(shift) \o lo.m
         IN  Rounded(Digits(Sum(Limbs(x), Limbs(y), 0)), hi.e + Padding(x) + 6, FALSE)

RECURSIVE matched_weight_binary64(_, _, _)
(* The loop of lines 146-149 over the required skills left, from the        *)
(* matched_weight it has reached.                                           *)
matched_weight_binary64(skills, required, reached) ==
    IF required = <<>> THEN reached
    ELSE LET hit == cand_skills(skills, required[1])
         IN  matched_weight_binary64(skills, Tail(required),
                 IF hit = <<>> THEN reached
                 ELSE F64Add(reached, F64Div(F64(hit[1]), 100)))

(* _calculate_skill_match as the build computes it, digit for digit. *)
calculate_skill_match_binary64(candidate, job) ==
    IF ~Truthy(job, "required_skills") THEN Zero
    ELSE IF ~Truthy(candidate, "skills") THEN Zero
    ELSE LET required == [i \in 1..Len(job.required_skills) |-> Lower(job.required_skills[i])]
         IN  F64Div(matched_weight_binary64(candidate.skills, required, Zero), Len(required))

---------------------------------------------------------------------------
(* len(exp) * 0.05 without the cap. *)
uncapped_experience_boost(candidate) ==
    IF ~Truthy(candidate, "experience") THEN 0
    ELSE Len(candidate.experience) * (Scale \div 20)

calculate_experience_boost(candidate) ==
    IF ~Truthy(candidate, "experience") THEN 0
    ELSE Min(Len(candidate.experience) * (Scale \div 20), Scale \div 5)

(* The sum with the weights 0.5, 0.4 and 0.1. *)
misweighted_sum(semantic_sim, skill_score, exp_boost) ==
    (5 * semantic_sim + 4 * skill_score + 1 * exp_boost) \div 10

(* 0.6 * semantic_sim + 0.3 * skill_score + 0.1 * exp_boost *)
weighted_sum(semantic_sim, skill_score, exp_boost) ==
    (6 * semantic_sim + 3 * skill_score + 1 * exp_boost) \div 10

(* The weighted sum as it is, were it not clamped. *)
unclamped(x) == x

(* max(0.0, min(1.0, x)) *)
clamp01(x) == Max(0, Min(Scale, x))

(* Lines 209-214 of calculate_match_score, given the two resolved embeddings. *)
final_score(candidate, job, candidate_emb, job_emb) ==
    Round3(clamp01(weighted_sum(cosine_similarity(candidate_emb, job_emb),
                                calculate_skill_match(candidate, job),
                                calculate_experience_boost(candidate))))

---------------------------------------------------------------------------
(* Identities: bson.ObjectId accepts a str of 24 hexadecimal digits and is   *)
(* printed (str(oid)) as those digits in lower case.                         *)

HexDigits ==
    {"0", "1", "2", "3", "4", "5", "6", "7", "8", "9",
     "a", "b", "c", "d", "e", "f", "A", "B", "C", "D", "E", "F"}

ObjectIdValid(s) == Len(s) = 24 /\ \A i \in 1..Len(s) : s[i] \in HexDigits

(* ObjectId(s) for a valid s: the identity, held as its canonical digits. *)
ObjectId(s) == Lower(s)

(* The 24-digit string 00...0c. *)
Oid(c) == [i \in 1..24 |-> IF i = 24 THEN c ELSE "0"]

---------------------------------------------------------------------------
(* The store: pymongo collections *)

(* Index of the first document whose field k is v; 0 when there is none. *)
IndexOf(coll, k, v) ==
    LET hits == {i \in 1..Len(coll) : k \in DOMAIN coll[i] /\ coll[i][k] = v}
    IN  IF hits = {} THEN 0 ELSE CHOOSE i \in hits : \A j \in hits : i <= j

(* collection.find_one({k: v}) *)
find_one(coll, k, v) == IF IndexOf(coll, k, v) = 0 THEN None ELSE coll[IndexOf(coll, k, v)]

(* collection.update_one({k: v}, {"$set": u}, upsert=False) *)
update_one(coll, k, v, u) ==
    [i \in 1..Len(coll) |-> IF i = IndexOf(coll, k, v) THEN SetFields(coll[i], u) ELSE coll[i]]

RECURSIVE SelectSeq2(_, _, _)
(* list(collection.find({k: v})): the matching documents in retrieval order. *)
SelectSeq2(coll, k, v) ==
    IF coll = <<>> THEN <<>>
    ELSE (IF k \in DOMAIN coll[1] /\ coll[1][k] = v THEN <<coll[1]>> ELSE <<>>)
         \o SelectSeq2(Tail(coll), k, v)

(* collection.delete_one({"_id": id, "posted_by": owner}) *)
delete_one(coll, id, owner) ==
    LET hits == {i \in 1..Len(coll) : coll[i]["_id"] = id /\ "posted_by" \in DOMAIN coll[i]
                                     /\ coll[i]["posted_by"] = owner}
    IN  IF hits = {} THEN coll
        ELSE LET n == CHOOSE i \in hits : \A j \in hits : i <= j
             IN  SubSeq(coll, 1, n - 1) \o SubSeq(coll, n + 1, Len(coll))

---------------------------------------------------------------------------
(* Bounds of the model *)

(* Requests (route calls) one behaviour starts. *)
MaxReqs == 2

(* Provider and store failures one behaviour injects. *)
MaxFaults == 2

(* Profile / job edits one behaviour makes. *)
MaxEdits == 1

(* Requests, failures and edits of one behaviour of the concurrent handlers. *)
RaceReqs == 2

RaceFaults == 1

RaceEdits == 1

(* Calls and failures of one behaviour of the engine called directly. *)
EngineReqs == 2

EngineFaults == 1

(* Calls of one behaviour of _calculate_skill_match called directly. *)
SkillCalls == 2

(* Experience entries of a candidate _calculate_experience_boost is given. *)
MaxEntries == 10

(* Requests and provider failures of one behaviour of the job routes. *)
JobsReqs == 3

JobsFaults == 1

(* Requests and provider failures of one behaviour of the account and     *)
(* application routes.                                                      *)
AccountReqs == 3

AccountFaults == 1

(* Concurrent request handlers (workers). *)
Procs == {1, 2}

---------------------------------------------------------------------------
(* Records the store can hold *)

(* A registered candidate who filled in a profile. *)
CandA ==
    [_id |-> Oid("1"), email |-> "a@x", password |-> "hashA", name |-> <<"a">>,
     bio |-> <<"p">>,
     skills |-> << [name |-> <<"P">>, level |-> 80] >>,
     portfolio |-> <<>>, education |-> <<>>,
     experience |-> << [role |-> <<"d">>, company |-> <<"c">>, description |-> <<>>] >>]

(* A candidate as register_candidate stores it: no bio, empty lists. *)
CandB ==
    [_id |-> Oid("2"), email |-> "b@x", password |-> "hashB", name |-> <<"b">>,
     bio |-> <<>>, skills |-> <<>>, portfolio |-> <<>>, education |-> <<>>,
     experience |-> <<>>]

(* A candidate whose profile holds one skill and nothing else. *)
CandC ==
    [_id |-> Oid("3"), email |-> "a@x", password |-> "hashC", name |-> <<"c">>,
     bio |-> <<>>, skills |-> << [name |-> <<"P">>, level |-> 80] >>,
     portfolio |-> <<>>, education |-> <<>>, experience |-> <<>>]

(* A job as create_job stores it (JobCreate has no company and no source). *)
JobHr ==
    [_id |-> Oid("a"), title |-> <<"p">>, description |-> <<"d">>,
     required_skills |-> << <<"p">> >>, job_type |-> <<"f">>, location |-> <<>>,
     posted_by |-> "hr@x"]

(* A job as search_jobs stores it. *)
JobApi ==
    [_id |-> Oid("b"), title |-> <<"q">>, company |-> <<"c">>, location |-> <<>>,
     description |-> <<"s">>, required_skills |-> << <<"s">>, <<"P">> >>,
     job_type |-> <<>>, source |-> "api", posted_by |-> "system@autofetch.ai"]

(* A job search_jobs stored from an API item that carried no field. *)
JobBlank ==
    [_id |-> Oid("c"), title |-> <<>>, company |-> <<>>, location |-> <<>>,
     description |-> <<>>, required_skills |-> <<>>, job_type |-> <<>>,
     source |-> "api", posted_by |-> "system@autofetch.ai"]

---------------------------------------------------------------------------
(* State *)

VARIABLES
    cands,      \* the "candidates" collection
    jobs,       \* the "jobs" collection
    pc,         \* pc[p]: where handler p is in its request
    loc,        \* loc[p]: the local variables of handler p's request
    resp,       \* resp[p]: what handler p's last finished request returned
    budget,     \* the requests, failures and edits the behaviour may still make
    written,    \* written[id]: embedding writes that reached record id
    edited,     \* edited[id]: edits and deletions that changed record id
    memo,       \* memo[<<c, j>>]: the score last returned for candidate c and job j
                \* with both embeddings persisted and no edit since; -1 if none
    applications,       \* the "applications" collection
    blacklisted_tokens  \* the "blacklisted_tokens" collection

vars == <<cands, jobs, pc, loc, resp, budget, written, edited, memo,
          applications, blacklisted_tokens>>

CandIds == {CandA["_id"], CandB["_id"], CandC["_id"]}

JobIds == {JobHr["_id"], JobApi["_id"], JobBlank["_id"]}

(* The identities insert_one gives the documents the routes insert, in the  *)
(* order it gives them.                                                     *)
NewIds == <<Oid("4"), Oid("5"), Oid("6"), Oid("7"), Oid("8"), Oid("9")>>

RecordIds == CandIds \cup JobIds \cup Elements(NewIds)

NoLocals ==
    [op |-> "none", email |-> "", job_id |-> <<>>, top_n |-> 0, source |-> "",
     candidate |-> None, job |-> None, items |-> <<>>, i |-> 0, scored |-> <<>>,
     candidate_emb |-> None, job_emb |-> None, score |-> 0, exc |-> FALSE,
     ret |-> "none", calls |-> 0, cms_io |-> 0, cms_calls |-> 0, cms_nf |-> 0,
     prev |-> -1, id_class |-> "none", token |-> None, limit |-> 0,
     auto_store |-> FALSE, attempt |-> 0, status |-> 0, slept |-> 0,
     inserted |-> <<>>]

(* What is kept of a request's locals once it has answered: the operation,  *)
(* its arguments and how it classified the job id it was given.             *)
Finished(l) ==
    [NoLocals EXCEPT !.op = l.op, !.id_class = l.id_class, !.email = l.email,
                     !.job_id = l.job_id, !.top_n = l.top_n, !.source = l.source,
                     !.token = l.token, !.limit = l.limit, !.auto_store = l.auto_store,
                     !.attempt = l.attempt, !.status = l.status, !.slept = l.slept]

NoResponse == [kind |-> "none", status |-> 0, detail |-> "", value |-> None]

(* The populations the model starts from: records as the routes that create  *)
(* them leave them, none with an embedding yet.                              *)
Populations ==
    { [cands |-> <<CandA, CandB>>, jobs |-> <<JobHr, JobApi>>],
      [cands |-> <<CandC>>, jobs |-> <<JobApi, JobBlank>>] }

InitWith(pops, reqs, faults, edits) ==
    /\ \E pop \in pops : cands = pop.cands /\ jobs = pop.jobs
    /\ pc = [p \in Procs |-> "idle"]
    /\ loc = [p \in Procs |-> NoLocals]
    /\ resp = [p \in Procs |-> NoResponse]
    /\ budget = [reqs |-> reqs, faults |-> faults, edits |-> edits]
    /\ written = [id \in RecordIds |-> 0]
    /\ edited = [id \in RecordIds |-> 0]
    /\ memo = [pair \in CandIds \X JobIds |-> -1]
    /\ applications = <<>>
    /\ blacklisted_tokens = <<>>

---------------------------------------------------------------------------
(* Failures.  A provider call or a store access of the embedding resolution *)
(* either succeeds or raises; a behaviour injects a bounded number.         *)

(* encode_text(text): what it returns or that it raised, the provider calls *)
(* it made and the failures it used, with `left` failures still to inject.  *)
encode_text(text, left) ==
    IF text = <<>>
    THEN {[emb |-> None, raised |-> FALSE, calls |-> 0, nf |-> 0]}
    ELSE {[emb |-> model_encode(text), raised |-> FALSE, calls |-> 1, nf |-> 0]} \cup
         (IF left >= 1
          THEN {[emb |-> None, raised |-> TRUE, calls |-> 1, nf |-> 1]} ELSE {})

(* embed_and_store_candidate / embed_and_store_job on a record whose text is *)
(* `text`: the embedding returned, whether update_one was applied, whether   *)
(* the provider or the store raised.                                         *)
embed_and_store(text, left) ==
    IF text = <<>>
    THEN {[emb |-> None, wrote |-> FALSE, raised |-> FALSE, calls |-> 0, io |-> 0, nf |-> 0]}
    ELSE {[emb |-> model_encode(text), wrote |-> TRUE, raised |-> FALSE,
           calls |-> 1, io |-> 1, nf |-> 0]} \cup
         (IF left >= 1
          THEN {[emb |-> None, wrote |-> FALSE, raised |-> TRUE, calls |-> 1, io |-> 0, nf |-> 1],
                [emb |-> None, wrote |-> FALSE, raised |-> TRUE, calls |-> 1, io |-> 1, nf |-> 1]}
          ELSE {})

embed_and_store_candidate(candidate, left) ==
    embed_and_store(extract_candidate_text(candidate), left)

embed_and_store_job(job, left) ==
    embed_and_store(extract_job_text(job), left)

(* The store were the vector appended to the stored one ("$push" with      *)
(* "$each") instead of replacing it.                                        *)
PushEmbedding(coll, id, emb) ==
    [i \in 1..Len(coll) |->
        IF i = IndexOf(coll, "_id", id)
        THEN SetField(coll[i], "embedding", Get(coll[i], "embedding") \o emb)
        ELSE coll[i]]

(* The store after update_one({"_id": id}, {"$set": {"embedding": emb}}). *)
StoreEmbedding(coll, id, emb) == update_one(coll, "_id", id, [embedding |-> emb])

(* The ghost count of embedding writes after one that matched record id. *)
CountWrite(coll, id) ==
    IF IndexOf(coll, "_id", id) = 0 THEN written
    ELSE [written EXCEPT ![id] = @ + 1]

(* A lookup that finds no stored embedding. *)
no_embedding(doc) == FALSE

(* if doc and doc.get("embedding") (lines 188 and 200) *)
has_embedding(doc) == doc # None /\ Truthy(doc, "embedding")

(* Record id of coll is stored with an embedding. *)
Persisted(coll, id) ==
    IndexOf(coll, "_id", id) # 0 /\ Truthy(coll[IndexOf(coll, "_id", id)], "embedding")

---------------------------------------------------------------------------
(* Responses *)

Raised == [kind |-> "raised", status |-> 500, detail |-> "exception", value |-> None]

HttpError(status, detail) == [kind |-> "error", status |-> status, detail |-> detail, value |-> None]

Ok(kind, value) == [kind |-> kind, status |-> 200, detail |-> "", value |-> value]

(* Handler p, whose locals are l, ends its request with response r. *)
Respond(p, l, r) ==
    /\ resp' = [resp EXCEPT ![p] = r]
    /\ pc' = [pc EXCEPT ![p] = "idle"]
    /\ loc' = [loc EXCEPT ![p] = Finished(l)]

(* Handler p can take a new request. *)
CanStart(p) == pc[p] = "idle" /\ budget.reqs >= 1

---------------------------------------------------------------------------
(* AIMatchingEngine.calculate_match_score(candidate, job)                   *)

(* The locals of a call of calculate_match_score that returns to `ret`. *)
CallScore(l, candidate, job, ret) ==
    [l EXCEPT !.candidate = candidate, !.job = job, !.ret = ret,
              !.candidate_emb = None, !.job_emb = None, !.score = 0, !.exc = FALSE,
              !.cms_io = 0, !.cms_calls = 0, !.cms_nf = 0, !.prev = -1]

(* The pair a call scores, when both records carry an identity of the store. *)
HasPair(l) ==
    /\ l.candidate # None /\ l.job # None
    /\ Get(l.candidate, "_id") \in CandIds /\ Get(l.job, "_id") \in JobIds

PairOf(l) == <<l.candidate["_id"], l.job["_id"]>>

(* The entry of the call without the test of line 176. *)
CmsEnterUnguarded(p) ==
    /\ pc[p] = "cms_enter"
    /\ LET l == loc[p]
       IN  IF l.candidate = None \/ l.job = None
           THEN /\ loc' = [loc EXCEPT ![p].exc = TRUE]
                /\ pc' = [pc EXCEPT ![p] = l.ret]
           ELSE /\ loc' = [loc EXCEPT ![p].prev = IF HasPair(l) THEN memo[PairOf(l)] ELSE -1]
                /\ pc' = [pc EXCEPT ![p] = "cms_candidate"]
    /\ UNCHANGED <<cands, jobs, resp, budget, written, edited, memo, applications, blacklisted_tokens>>

(* Lines 174-177: the texts; 0.0 at once when either is empty.  A None      *)
(* candidate or job makes the extraction raise (None has no .get).          *)
CmsEnter(p) ==
    /\ pc[p] = "cms_enter"
    /\ LET l == loc[p]
       IN  IF l.candidate = None \/ l.job = None
           THEN /\ loc' = [loc EXCEPT ![p].exc = TRUE]
                /\ pc' = [pc EXCEPT ![p] = l.ret]
           ELSE IF extract_candidate_text(l.candidate) = <<>> \/ extract_job_text(l.job) = <<>>
           THEN /\ loc' = [loc EXCEPT ![p].score = 0]
                /\ pc' = [pc EXCEPT ![p] = l.ret]
           ELSE /\ loc' = [loc EXCEPT ![p].prev = IF HasPair(l) THEN memo[PairOf(l)] ELSE -1]
                /\ pc' = [pc EXCEPT ![p] = "cms_candidate"]
    /\ UNCHANGED <<cands, jobs, resp, budget, written, edited, memo, applications, blacklisted_tokens>>

(* The except branch of the candidate's try block: encode_text(cand_text),  *)
(* unguarded, after an attempt that used `used` failures, `calls` provider   *)
(* calls and `io` store accesses.                                            *)
CmsCandidateFallback(p, text, used, calls, io) ==
    \E f \in encode_text(text, budget.faults - used) :
        /\ loc' = [loc EXCEPT ![p].candidate_emb = f.emb,
                              ![p].exc = f.raised,
                              ![p].calls = @ + calls + f.calls,
                              ![p].cms_calls = @ + calls + f.calls,
                              ![p].cms_io = @ + io,
                              ![p].cms_nf = @ + used + f.nf]
        /\ pc' = [pc EXCEPT ![p] = IF f.raised THEN loc[p].ret ELSE "cms_job"]
        /\ budget' = [budget EXCEPT !.faults = @ - (used + f.nf)]

(* Lines 185-195 without line 193: a candidate with no identity gets no     *)
(* embedding.                                                               *)
CmsCandidateNoTransient(p) ==
    /\ pc[p] = "cms_candidate"
    /\ LET l    == loc[p]
           text == extract_candidate_text(l.candidate)
       IN  IF Truthy(l.candidate, "_id")
           THEN \/ LET cand_db == find_one(cands, "_id", l.candidate["_id"])
                   IN  /\ IF has_embedding(cand_db)
                          THEN /\ loc' = [loc EXCEPT ![p].candidate_emb = cand_db["embedding"],
                                                     ![p].cms_io = @ + 1]
                               /\ pc' = [pc EXCEPT ![p] = "cms_job"]
                          ELSE /\ loc' = [loc EXCEPT ![p].cms_io = @ + 1]
                               /\ pc' = [pc EXCEPT ![p] = "cms_candidate_embed"]
                       /\ UNCHANGED <<budget, applications, blacklisted_tokens>>
                \/ /\ budget.faults >= 1
                   /\ CmsCandidateFallback(p, text, 1, 0, 1)
           ELSE /\ loc' = [loc EXCEPT ![p].candidate_emb = None]
                /\ pc' = [pc EXCEPT ![p] = "cms_job"]
                /\ UNCHANGED <<budget, applications, blacklisted_tokens>>
    /\ UNCHANGED <<cands, jobs, resp, written, edited, memo, applications, blacklisted_tokens>>

(* Lines 185-195, up to the store read. *)
CmsCandidate(p) ==
    /\ pc[p] = "cms_candidate"
    /\ LET l    == loc[p]
           text == extract_candidate_text(l.candidate)
       IN  IF Truthy(l.candidate, "_id")
           THEN \/ LET cand_db == find_one(cands, "_id", l.candidate["_id"])
                   IN  /\ IF has_embedding(cand_db)
                          THEN /\ loc' = [loc EXCEPT ![p].candidate_emb = cand_db["embedding"],
                                                     ![p].cms_io = @ + 1]
                               /\ pc' = [pc EXCEPT ![p] = "cms_job"]
                          ELSE /\ loc' = [loc EXCEPT ![p].cms_io = @ + 1]
                               /\ pc' = [pc EXCEPT ![p] = "cms_candidate_embed"]
                       /\ UNCHANGED <<budget, applications, blacklisted_tokens>>
                \/ /\ budget.faults >= 1
                   /\ CmsCandidateFallback(p, text, 1, 0, 1)
           ELSE \E o \in encode_text(text, budget.faults) :
                    IF o.raised
                    THEN CmsCandidateFallback(p, text, o.nf, o.calls, 0)
                    ELSE /\ loc' = [loc EXCEPT ![p].candidate_emb = o.emb,
                                               ![p].calls = @ + o.calls,
                                               ![p].cms_calls = @ + o.calls]
                         /\ pc' = [pc EXCEPT ![p] = "cms_job"]
                         /\ UNCHANGED <<budget, applications, blacklisted_tokens>>
    /\ UNCHANGED <<cands, jobs, resp, written, edited, memo, applications, blacklisted_tokens>>

(* Line 191: embed_and_store_candidate(candidate) inside the try block. *)
CmsCandidateEmbed(p) ==
    /\ pc[p] = "cms_candidate_embed"
    /\ LET l    == loc[p]
           text == extract_candidate_text(l.candidate)
           id   == l.candidate["_id"]
       IN  \E o \in embed_and_store_candidate(l.candidate, budget.faults) :
               IF o.raised
               THEN /\ CmsCandidateFallback(p, text, o.nf, o.calls, o.io)
                    /\ UNCHANGED <<cands, written, applications, blacklisted_tokens>>
               ELSE /\ loc' = [loc EXCEPT ![p].candidate_emb = o.emb,
                                          ![p].calls = @ + o.calls,
                                          ![p].cms_calls = @ + o.calls,
                                          ![p].cms_io = @ + o.io]
                    /\ pc' = [pc EXCEPT ![p] = "cms_job"]
                    /\ cands' = IF o.wrote THEN StoreEmbedding(cands, id, o.emb) ELSE cands
                    /\ written' = IF o.wrote THEN CountWrite(cands, id) ELSE written
                    /\ UNCHANGED <<budget, applications, blacklisted_tokens>>
    /\ UNCHANGED <<jobs, resp, edited, memo, applications, blacklisted_tokens>>

(* Lines 209-214 once job_emb is known: the call returns its score.  The    *)
(* call used `calls` provider calls, `io` store accesses and `nf` failures  *)
(* on the job's side and leaves the jobs collection as `after`.             *)
CmsFinish(p, job_emb, calls, io, nf, after) ==
    LET l     == loc[p]
        score == final_score(l.candidate, l.job, l.candidate_emb, job_emb)
    IN  /\ loc' = [loc EXCEPT ![p].job_emb = job_emb,
                              ![p].calls = @ + calls,
                              ![p].cms_calls = @ + calls,
                              ![p].cms_io = @ + io,
                              ![p].cms_nf = @ + nf,
                              ![p].score = score]
        /\ pc' = [pc EXCEPT ![p] = l.ret]
        /\ memo' = IF /\ HasPair(l)
                      /\ Persisted(cands, l.candidate["_id"])
                      /\ Persisted(after, l.job["_id"])
                   THEN [memo EXCEPT ![PairOf(l)] = score]
                   ELSE memo

(* The except branch of the job's try block, then lines 209-214. *)
CmsJobFallback(p, text, used, calls, io) ==
    \E f \in encode_text(text, budget.faults - used) :
        /\ IF f.raised
           THEN /\ loc' = [loc EXCEPT ![p].exc = TRUE,
                                      ![p].calls = @ + calls + f.calls,
                                      ![p].cms_calls = @ + calls + f.calls,
                                      ![p].cms_io = @ + io,
                                      ![p].cms_nf = @ + used + f.nf]
                /\ pc' = [pc EXCEPT ![p] = loc[p].ret]
                /\ UNCHANGED <<memo, applications, blacklisted_tokens>>
           ELSE CmsFinish(p, f.emb, calls + f.calls, io, used + f.nf, jobs)
        /\ budget' = [budget EXCEPT !.faults = @ - (used + f.nf)]

(* Lines 197-207, up to the store read. *)
CmsJob(p) ==
    /\ pc[p] = "cms_job"
    /\ LET l    == loc[p]
           text == extract_job_text(l.job)
       IN  IF Truthy(l.job, "_id")
           THEN \/ LET job_db == find_one(jobs, "_id", l.job["_id"])
                   IN  /\ IF has_embedding(job_db)
                          THEN CmsFinish(p, job_db["embedding"], 0, 1, 0, jobs)
                          ELSE /\ loc' = [loc EXCEPT ![p].cms_io = @ + 1]
                               /\ pc' = [pc EXCEPT ![p] = "cms_job_embed"]
                               /\ UNCHANGED <<memo, applications, blacklisted_tokens>>
                       /\ UNCHANGED <<budget, applications, blacklisted_tokens>>
                \/ /\ budget.faults >= 1
                   /\ CmsJobFallback(p, text, 1, 0, 1)
           ELSE \E o \in encode_text(text, budget.faults) :
                    IF o.raised
                    THEN CmsJobFallback(p, text, o.nf, o.calls, 0)
                    ELSE CmsFinish(p, o.emb, o.calls, 0, 0, jobs) /\ UNCHANGED <<budget, applications, blacklisted_tokens>>
    /\ UNCHANGED <<cands, jobs, resp, written, edited, applications, blacklisted_tokens>>

(* Line 203: embed_and_store_job(job) inside the try block. *)
CmsJobEmbed(p) ==
    /\ pc[p] = "cms_job_embed"
    /\ LET l    == loc[p]
           text == extract_job_text(l.job)
           id   == l.job["_id"]
       IN  \E o \in embed_and_store_job(l.job, budget.faults) :
               IF o.raised
               THEN /\ CmsJobFallback(p, text, o.nf, o.calls, o.io)
                    /\ UNCHANGED <<jobs, written, applications, blacklisted_tokens>>
               ELSE LET after == IF o.wrote THEN StoreEmbedding(jobs, id, o.emb) ELSE jobs
                    IN  /\ CmsFinish(p, o.emb, o.calls, o.io, 0, after)
                        /\ jobs' = after
                        /\ written' = IF o.wrote THEN CountWrite(jobs, id) ELSE written
                        /\ UNCHANGED <<budget, applications, blacklisted_tokens>>
    /\ UNCHANGED <<cands, resp, edited, applications, blacklisted_tokens>>

(* The call of calculate_match_score by handler p has just returned. *)
CmsReturned(p) == pc[p] \in {"cs_return", "fj_collect", "fc_collect", "apply_insert"}

---------------------------------------------------------------------------
(* POST /matching/calculate-score (routes/matching.py)                      *)

(* round(score * 100, 1), a percentage scaled like every float. *)
Percentage(score) == Round1(score * 100)

CalculateScoreStart(p, candidate_email, job_id) ==
    /\ CanStart(p)
    /\ loc' = [loc EXCEPT ![p] = [NoLocals EXCEPT !.op = "calculate_score",
                                                   !.email = candidate_email,
                                                   !.job_id = job_id,
                                                   !.candidate = find_one(cands, "email", candidate_email)]]
    /\ pc' = [pc EXCEPT ![p] = "cs_job"]
    /\ resp' = [resp EXCEPT ![p] = NoResponse]
    /\ budget' = [budget EXCEPT !.reqs = @ - 1]
    /\ UNCHANGED <<cands, jobs, written, edited, memo, applications, blacklisted_tokens>>

CalculateScoreJob(p) ==
    /\ pc[p] = "cs_job"
    /\ LET l == loc[p]
       IN  IF ~ObjectIdValid(l.job_id)
           THEN Respond(p, [l EXCEPT !.id_class = "malformed"],
                        HttpError(400, "Invalid job ID"))
           ELSE LET job == find_one(jobs, "_id", ObjectId(l.job_id))
                IN  IF l.candidate = None \/ job = None
                    THEN Respond(p, [l EXCEPT !.id_class =
                                         IF job = None THEN "missing" ELSE "found"],
                                 HttpError(404, "Candidate or job not found"))
                    ELSE /\ loc' = [loc EXCEPT ![p] =
                                        CallScore([l EXCEPT !.id_class = "found"],
                                                  l.candidate, job, "cs_return")]
                         /\ pc' = [pc EXCEPT ![p] = "cms_enter"]
                         /\ UNCHANGED <<resp, applications, blacklisted_tokens>>
    /\ UNCHANGED <<cands, jobs, budget, written, edited, memo, applications, blacklisted_tokens>>

CalculateScoreReturn(p) ==
    /\ pc[p] = "cs_return"
    /\ LET l == loc[p]
       IN  IF l.exc
           THEN Respond(p, l, Raised)
           ELSE Respond(p, l, Ok("score", [candidate_email |-> l.email,
                                           job_id |-> l.job_id,
                                           job_title |-> Get(l.job, "title"),
                                           match_score |-> l.score,
                                           match_percentage |-> Percentage(l.score)]))
    /\ UNCHANGED <<cands, jobs, budget, written, edited, memo, applications, blacklisted_tokens>>

---------------------------------------------------------------------------
(* Ranking *)

RECURSIVE InsertBeforeTies(_, _)
(* x placed before the entries whose match_score equals its own. *)
InsertBeforeTies(sorted, x) ==
    IF sorted = <<>> THEN <<x>>
    ELSE IF sorted[1]["match_score"] > x["match_score"]
         THEN <<sorted[1]>> \o InsertBeforeTies(Tail(sorted), x)
         ELSE <<x>> \o sorted

RECURSIVE InsertDesc(_, _)
(* x placed after every entry whose match_score is at least its own. *)
InsertDesc(sorted, x) ==
    IF sorted = <<>> THEN <<x>>
    ELSE IF sorted[1]["match_score"] >= x["match_score"]
         THEN <<sorted[1]>> \o InsertDesc(Tail(sorted), x)
         ELSE <<x>> \o sorted

RECURSIVE SortDesc(_)
(* scored.sort(key=match_score, reverse=True): stable, descending. *)
SortDesc(scored) ==
    IF scored = <<>> THEN <<>>
    ELSE InsertDesc(SortDesc(SubSeq(scored, 1, Len(scored) - 1)), scored[Len(scored)])

(* The list as it is, were it not truncated. *)
Untruncated(scored, top_n) == scored

(* scored[:top_n] for top_n >= 0 *)
Take(scored, top_n) == SubSeq(scored, 1, Min(top_n, Len(scored)))

(* dict(doc) with "_id" as str and "match_score" set. *)
ScoredCopy(doc, score) == SetFields(doc, [_id |-> doc["_id"], match_score |-> score])

---------------------------------------------------------------------------
(* GET /matching/jobs/recommended -> find_matching_jobs_for_candidate       *)

(* The entry without the test of line 224: a candidate that is not there   *)
(* makes the search raise.                                                  *)
RecommendedJobsStartUnchecked(p, candidate_email, top_n, source) ==
    /\ CanStart(p)
    /\ budget' = [budget EXCEPT !.reqs = @ - 1]
    /\ LET candidate == find_one(cands, "email", candidate_email)
           l == [NoLocals EXCEPT !.op = "recommended_jobs", !.email = candidate_email,
                                 !.top_n = top_n, !.source = source,
                                 !.candidate = candidate]
       IN  IF candidate = None
           THEN Respond(p, l, Raised)
           ELSE /\ loc' = [loc EXCEPT ![p] = l]
                /\ pc' = [pc EXCEPT ![p] =
                             IF Truthy(candidate, "embedding") THEN "fj_jobs" ELSE "fj_embed"]
                /\ resp' = [resp EXCEPT ![p] = NoResponse]
    /\ UNCHANGED <<cands, jobs, written, edited, memo, applications, blacklisted_tokens>>

RecommendedJobsStart(p, candidate_email, top_n, source) ==
    /\ CanStart(p)
    /\ budget' = [budget EXCEPT !.reqs = @ - 1]
    /\ LET candidate == find_one(cands, "email", candidate_email)
           l == [NoLocals EXCEPT !.op = "recommended_jobs", !.email = candidate_email,
                                 !.top_n = top_n, !.source = source,
                                 !.candidate = candidate]
       IN  IF candidate = None
           THEN Respond(p, l, Ok("list", <<>>))
           ELSE /\ loc' = [loc EXCEPT ![p] = l]
                /\ pc' = [pc EXCEPT ![p] =
                             IF Truthy(candidate, "embedding") THEN "fj_jobs" ELSE "fj_embed"]
                /\ resp' = [resp EXCEPT ![p] = NoResponse]
    /\ UNCHANGED <<cands, jobs, written, edited, memo, applications, blacklisted_tokens>>

(* Line 228: embed_and_store_candidate(candidate), outside any try block. *)
FjEmbed(p) ==
    /\ pc[p] = "fj_embed"
    /\ LET l == loc[p]
       IN  \E o \in embed_and_store_candidate(l.candidate, budget.faults) :
               /\ budget' = [budget EXCEPT !.faults = @ - o.nf]
               /\ IF o.raised
                  THEN Respond(p, l, Raised) /\ UNCHANGED <<cands, written, applications, blacklisted_tokens>>
                  ELSE /\ loc' = [loc EXCEPT ![p].calls = @ + o.calls]
                       /\ pc' = [pc EXCEPT ![p] = "fj_reload"]
                       /\ cands' = IF o.wrote THEN StoreEmbedding(cands, l.candidate["_id"], o.emb)
                                   ELSE cands
                       /\ written' = IF o.wrote THEN CountWrite(cands, l.candidate["_id"])
                                     ELSE written
                       /\ UNCHANGED <<resp, applications, blacklisted_tokens>>
    /\ UNCHANGED <<jobs, edited, memo, applications, blacklisted_tokens>>

(* Line 229: candidate = cands_col.find_one({"_id": candidate["_id"]}) *)
FjReload(p) ==
    /\ pc[p] = "fj_reload"
    /\ loc' = [loc EXCEPT ![p].candidate = find_one(cands, "_id", loc[p].candidate["_id"])]
    /\ pc' = [pc EXCEPT ![p] = "fj_jobs"]
    /\ UNCHANGED <<cands, jobs, resp, budget, written, edited, memo, applications, blacklisted_tokens>>

(* Lines 231-232: the jobs to score, then the first call of the loop. *)
FjJobs(p) ==
    /\ pc[p] = "fj_jobs"
    /\ LET l == loc[p]
           found == IF l.source # "" THEN SelectSeq2(jobs, "source", l.source) ELSE jobs
       IN  IF found = <<>>
           THEN Respond(p, l, Ok("list", <<>>))
           ELSE /\ loc' = [loc EXCEPT ![p] =
                               CallScore([l EXCEPT !.items = found, !.i = 1],
                                         l.candidate, found[1], "fj_collect")]
                /\ pc' = [pc EXCEPT ![p] = "cms_enter"]
                /\ UNCHANGED <<resp, applications, blacklisted_tokens>>
    /\ UNCHANGED <<cands, jobs, budget, written, edited, memo, applications, blacklisted_tokens>>

(* Lines 236-239: the scored list with the copy of the job just scored. *)
FjScored(l) == Append(l.scored, ScoredCopy(l.items[l.i], l.score))

(* Lines 240-241: what the search returns once the last job is scored. *)
FjResult(l) == Take(SortDesc(FjScored(l)), l.top_n)

(* Lines 236-241: the scored copy, the next call, or the sorted result. *)
FjCollect(p) ==
    /\ pc[p] = "fj_collect"
    /\ LET l == loc[p]
           scored == FjScored(l)
       IN  IF l.exc
           THEN Respond(p, l, Raised)
           ELSE IF l.i < Len(l.items)
           THEN /\ loc' = [loc EXCEPT ![p] =
                               CallScore([l EXCEPT !.scored = scored, !.i = l.i + 1],
                                         l.candidate, l.items[l.i + 1], "fj_collect")]
                /\ pc' = [pc EXCEPT ![p] = "cms_enter"]
                /\ UNCHANGED <<resp, applications, blacklisted_tokens>>
           ELSE Respond(p, l, Ok("list", FjResult(l)))
    /\ UNCHANGED <<cands, jobs, budget, written, edited, memo, applications, blacklisted_tokens>>

---------------------------------------------------------------------------
(* GET /matching/candidates/recommended/{job_id}                            *)
(*   -> find_matching_candidates_for_job                                    *)

(* The route's answer to the list the engine returned (lines 41-47). *)
RecommendedCandidatesResponse(candidates) ==
    IF candidates = <<>>
    THEN [kind |-> "error", status |-> 404,
          detail |-> "Job not found or no candidates available", value |-> candidates]
    ELSE Ok("list", candidates)

RecommendedCandidatesStart(p, job_id, top_n) ==
    /\ CanStart(p)
    /\ budget' = [budget EXCEPT !.reqs = @ - 1]
    /\ LET l == [NoLocals EXCEPT !.op = "recommended_candidates", !.job_id = job_id,
                                 !.top_n = top_n]
       IN  IF ~ObjectIdValid(job_id)
           THEN Respond(p, [l EXCEPT !.id_class = "malformed"],
                        RecommendedCandidatesResponse(<<>>))
           ELSE LET job == find_one(jobs, "_id", ObjectId(job_id))
                IN  IF job = None
                    THEN Respond(p, [l EXCEPT !.id_class = "missing"],
                                 RecommendedCandidatesResponse(<<>>))
                    ELSE /\ loc' = [loc EXCEPT ![p] = [l EXCEPT !.id_class = "found", !.job = job]]
                         /\ pc' = [pc EXCEPT ![p] =
                                      IF Truthy(job, "embedding") THEN "fc_candidates"
                                      ELSE "fc_embed"]
                         /\ resp' = [resp EXCEPT ![p] = NoResponse]
    /\ UNCHANGED <<cands, jobs, written, edited, memo, applications, blacklisted_tokens>>

(* Line 256: embed_and_store_job(job), outside any try block. *)
FcEmbed(p) ==
    /\ pc[p] = "fc_embed"
    /\ LET l == loc[p]
       IN  \E o \in embed_and_store_job(l.job, budget.faults) :
               /\ budget' = [budget EXCEPT !.faults = @ - o.nf]
               /\ IF o.raised
                  THEN Respond(p, l, Raised) /\ UNCHANGED <<jobs, written, applications, blacklisted_tokens>>
                  ELSE /\ loc' = [loc EXCEPT ![p].calls = @ + o.calls]
                       /\ pc' = [pc EXCEPT ![p] = "fc_reload"]
                       /\ jobs' = IF o.wrote THEN StoreEmbedding(jobs, l.job["_id"], o.emb)
                                  ELSE jobs
                       /\ written' = IF o.wrote THEN CountWrite(jobs, l.job["_id"]) ELSE written
                       /\ UNCHANGED <<resp, applications, blacklisted_tokens>>
    /\ UNCHANGED <<cands, edited, memo, applications, blacklisted_tokens>>

(* Line 257: job = jobs_col.find_one({"_id": job["_id"]}) *)
FcReload(p) ==
    /\ pc[p] = "fc_reload"
    /\ loc' = [loc EXCEPT ![p].job = find_one(jobs, "_id", loc[p].job["_id"])]
    /\ pc' = [pc EXCEPT ![p] = "fc_candidates"]
    /\ UNCHANGED <<cands, jobs, resp, budget, written, edited, memo, applications, blacklisted_tokens>>

(* The loop body without lines 262-264: the candidate is scored as loaded. *)
FcVisitAsLoaded(p, l, i) ==
    /\ loc' = [loc EXCEPT ![p] = CallScore([l EXCEPT !.i = i], l.items[i], l.job, "fc_collect")]
    /\ pc' = [pc EXCEPT ![p] = "cms_enter"]

(* The head of the loop body for candidate number i (lines 261-265): embed  *)
(* it first when it has no embedding, else score it.                        *)
FcVisit(p, l, i) ==
    IF ~Truthy(l.items[i], "embedding")
    THEN /\ loc' = [loc EXCEPT ![p] = [l EXCEPT !.i = i, !.candidate = l.items[i]]]
         /\ pc' = [pc EXCEPT ![p] = "fc_candidate_embed"]
    ELSE /\ loc' = [loc EXCEPT ![p] =
                        CallScore([l EXCEPT !.i = i], l.items[i], l.job, "fc_collect")]
         /\ pc' = [pc EXCEPT ![p] = "cms_enter"]

(* Line 259: candidates = list(cands_col.find({}, {"password": 0})) *)
FcCandidates(p) ==
    /\ pc[p] = "fc_candidates"
    /\ LET l == loc[p]
           found == [i \in 1..Len(cands) |-> Project(cands[i], "password")]
       IN  IF found = <<>>
           THEN Respond(p, l, RecommendedCandidatesResponse(<<>>))
           ELSE /\ FcVisit(p, [l EXCEPT !.items = found], 1)
                /\ UNCHANGED <<resp, applications, blacklisted_tokens>>
    /\ UNCHANGED <<cands, jobs, budget, written, edited, memo, applications, blacklisted_tokens>>

(* Line 263: embed_and_store_candidate(candidate), outside any try block. *)
FcCandidateEmbed(p) ==
    /\ pc[p] = "fc_candidate_embed"
    /\ LET l == loc[p]
       IN  \E o \in embed_and_store_candidate(l.candidate, budget.faults) :
               /\ budget' = [budget EXCEPT !.faults = @ - o.nf]
               /\ IF o.raised
                  THEN Respond(p, l, Raised) /\ UNCHANGED <<cands, written, applications, blacklisted_tokens>>
                  ELSE /\ loc' = [loc EXCEPT ![p].calls = @ + o.calls]
                       /\ pc' = [pc EXCEPT ![p] = "fc_candidate_reload"]
                       /\ cands' = IF o.wrote THEN StoreEmbedding(cands, l.candidate["_id"], o.emb)
                                   ELSE cands
                       /\ written' = IF o.wrote THEN CountWrite(cands, l.candidate["_id"])
                                     ELSE written
                       /\ UNCHANGED <<resp, applications, blacklisted_tokens>>
    /\ UNCHANGED <<jobs, edited, memo, applications, blacklisted_tokens>>

(* Line 264: candidate = cands_col.find_one({"_id": candidate["_id"]}) *)
FcCandidateReload(p) ==
    /\ pc[p] = "fc_candidate_reload"
    /\ LET l == loc[p]
       IN  loc' = [loc EXCEPT ![p] =
                       CallScore(l, find_one(cands, "_id", l.candidate["_id"]), l.job,
                                 "fc_collect")]
    /\ pc' = [pc EXCEPT ![p] = "cms_enter"]
    /\ UNCHANGED <<cands, jobs, resp, budget, written, edited, memo, applications, blacklisted_tokens>>

(* Lines 266-269: the scored list with the copy of the candidate just scored. *)
FcScored(l) == Append(l.scored, ScoredCopy(l.candidate, l.score))

(* Lines 270-271: what the search returns once the last candidate is scored. *)
FcResult(l) == Take(SortDesc(FcScored(l)), l.top_n)

(* Lines 266-271 and the route's lines 41-47. *)
FcCollect(p) ==
    /\ pc[p] = "fc_collect"
    /\ LET l == loc[p]
           scored == FcScored(l)
       IN  IF l.exc
           THEN Respond(p, l, Raised)
           ELSE IF l.i < Len(l.items)
           THEN /\ FcVisit(p, [l EXCEPT !.scored = scored], l.i + 1)
                /\ UNCHANGED <<resp, applications, blacklisted_tokens>>
           ELSE Respond(p, l, RecommendedCandidatesResponse(FcResult(l)))
    /\ UNCHANGED <<cands, jobs, budget, written, edited, memo, applications, blacklisted_tokens>>

---------------------------------------------------------------------------
(* GET /matching/skill-gap/{job_id} -> analyze_skill_gaps                   *)

StrLess(a, b) ==
    \E k \in 1..(Min(Len(a), Len(b)) + 1) :
        /\ \A i \in 1..(k - 1) : a[i] = b[i]
        /\ IF k > Len(a) THEN k <= Len(b)
           ELSE k <= Len(b) /\ CharCode(a[k]) < CharCode(b[k])

RECURSIVE SortedStrs(_)
(* sorted(list(S)) for a set of strings *)
SortedStrs(S) ==
    IF S = {} THEN <<>>
    ELSE LET least == CHOOSE x \in S : \A y \in S \ {x} : StrLess(x, y)
         IN  <<least>> \o SortedStrs(S \ {least})

UpperChar(c) ==
    CASE c = "p" -> "P"
      [] c = "s" -> "S"
      [] c = "q" -> "Q"
      [] c = "a" -> "A"
      [] c = "b" -> "B"
      [] c = "c" -> "C"
      [] c = "d" -> "D"
      [] c = "e" -> "E"
      [] c = "f" -> "F"
      [] c = "r" -> "R"
      [] c = "t" -> "T"
      [] OTHER -> c

IsLetter(c) == LowerChar(c) # c \/ UpperChar(c) # c

(* str.title(): a letter after a non-letter in upper case, the others lower. *)
Title(str) ==
    [i \in 1..Len(str) |->
        IF i = 1 \/ ~IsLetter(str[i - 1]) THEN UpperChar(str[i]) ELSE LowerChar(str[i])]

(* The f-string of line 309, held as its three pieces. *)
generate_recommendations(missing_skills) ==
    [i \in 1..Min(5, Len(missing_skills)) |->
        [prefix |-> "Consider learning ", skill |-> Title(missing_skills[i]),
         suffix |-> " through online courses or certifications"]]

(* Lines 289-306 with the candidate's skill names as they are written. *)
skill_gap_analysis_cased(candidate, job) ==
    LET skills == Get(candidate, "skills")
        candidate_skills == {Get(skills[i], "name") : i \in 1..Len(skills)}
        required == Get(job, "required_skills")
        required_skills == {Lower(required[i]) : i \in 1..Len(required)}
        missing_skills == SortedStrs(required_skills \ candidate_skills)
        matching_skills == SortedStrs(required_skills \cap candidate_skills)
    IN  [job_title |-> Get(job, "title"),
         match_percentage |->
             IF Cardinality(required_skills) > 0
             THEN Round1((Len(matching_skills) * 100 * Scale) \div Cardinality(required_skills))
             ELSE 0,
         matching_skills |-> matching_skills,
         missing_skills |-> missing_skills,
         total_required |-> Cardinality(required_skills),
         recommendations |-> generate_recommendations(missing_skills)]

(* Lines 289-306 of analyze_skill_gaps. *)
skill_gap_analysis(candidate, job) ==
    LET skills == Get(candidate, "skills")
        candidate_skills == {Lower(Get(skills[i], "name")) : i \in 1..Len(skills)}
        required == Get(job, "required_skills")
        required_skills == {Lower(required[i]) : i \in 1..Len(required)}
        missing_skills == SortedStrs(required_skills \ candidate_skills)
        matching_skills == SortedStrs(required_skills \cap candidate_skills)
    IN  [job_title |-> Get(job, "title"),
         match_percentage |->
             IF Cardinality(required_skills) > 0
             THEN Round1((Len(matching_skills) * 100 * Scale) \div Cardinality(required_skills))
             ELSE 0,
         matching_skills |-> matching_skills,
         missing_skills |-> missing_skills,
         total_required |-> Cardinality(required_skills),
         recommendations |-> generate_recommendations(missing_skills)]

SkillGapStart(p, candidate_email, job_id) ==
    /\ CanStart(p)
    /\ loc' = [loc EXCEPT ![p] = [NoLocals EXCEPT !.op = "skill_gap",
                                                   !.email = candidate_email,
                                                   !.job_id = job_id,
                                                   !.candidate = find_one(cands, "email", candidate_email)]]
    /\ pc' = [pc EXCEPT ![p] = "gap_job"]
    /\ resp' = [resp EXCEPT ![p] = NoResponse]
    /\ budget' = [budget EXCEPT !.reqs = @ - 1]
    /\ UNCHANGED <<cands, jobs, written, edited, memo, applications, blacklisted_tokens>>

(* Lines 281-306 with line 286 testing the job alone. *)
SkillGapJobIgnoresCandidate(p) ==
    /\ pc[p] = "gap_job"
    /\ LET l == loc[p]
       IN  IF ~ObjectIdValid(l.job_id)
           THEN Respond(p, [l EXCEPT !.id_class = "malformed"],
                        [kind |-> "error", status |-> 404, detail |-> "Invalid job ID",
                         value |-> [error |-> "Invalid job ID"]])
           ELSE LET job == find_one(jobs, "_id", ObjectId(l.job_id))
                IN  IF job = None
                    THEN Respond(p, [l EXCEPT !.id_class = "missing"],
                                 [kind |-> "error", status |-> 404,
                                  detail |-> "Candidate or job not found",
                                  value |-> [error |-> "Candidate or job not found"]])
                    ELSE Respond(p, [l EXCEPT !.id_class = "found"],
                                 Ok("gap", skill_gap_analysis(l.candidate, job)))
    /\ UNCHANGED <<cands, jobs, budget, written, edited, memo, applications, blacklisted_tokens>>

(* Lines 281-306 and the route's lines 63-69. *)
SkillGapJob(p) ==
    /\ pc[p] = "gap_job"
    /\ LET l == loc[p]
       IN  IF ~ObjectIdValid(l.job_id)
           THEN Respond(p, [l EXCEPT !.id_class = "malformed"],
                        [kind |-> "error", status |-> 404, detail |-> "Invalid job ID",
                         value |-> [error |-> "Invalid job ID"]])
           ELSE LET job == find_one(jobs, "_id", ObjectId(l.job_id))
                IN  IF l.candidate = None \/ job = None
                    THEN Respond(p, [l EXCEPT !.id_class =
                                         IF job = None THEN "missing" ELSE "found"],
                                 [kind |-> "error", status |-> 404,
                                  detail |-> "Candidate or job not found",
                                  value |-> [error |-> "Candidate or job not found"]])
                    ELSE Respond(p, [l EXCEPT !.id_class = "found"],
                                 Ok("gap", skill_gap_analysis(l.candidate, job)))
    /\ UNCHANGED <<cands, jobs, budget, written, edited, memo, applications, blacklisted_tokens>>

---------------------------------------------------------------------------
(* AIMatchingEngine.bulk_embed_jobs(source)                                 *)

RECURSIVE EveryJob(_, _)
(* list(jobs_col.find({[, "source": source]})): the query without "$exists". *)
EveryJob(coll, source) ==
    IF coll = <<>> THEN <<>>
    ELSE (IF source = "" \/ ("source" \in DOMAIN coll[1] /\ coll[1]["source"] = source)
          THEN <<coll[1]>> ELSE <<>>) \o EveryJob(Tail(coll), source)

RECURSIVE WithoutEmbedding(_, _)
(* list(jobs_col.find({"embedding": {"$exists": False}[, "source": source]})) *)
WithoutEmbedding(coll, source) ==
    IF coll = <<>> THEN <<>>
    ELSE (IF /\ "embedding" \notin DOMAIN coll[1]
             /\ (source = "" \/ ("source" \in DOMAIN coll[1] /\ coll[1]["source"] = source))
          THEN <<coll[1]>> ELSE <<>>) \o WithoutEmbedding(Tail(coll), source)

BulkEmbedStart(p, source) ==
    /\ CanStart(p)
    /\ budget' = [budget EXCEPT !.reqs = @ - 1]
    /\ LET found == WithoutEmbedding(jobs, source)
           l == [NoLocals EXCEPT !.op = "bulk_embed", !.source = source,
                                 !.items = found, !.i = 1]
       IN  IF found = <<>>
           THEN Respond(p, l, Ok("count", 0))
           ELSE /\ loc' = [loc EXCEPT ![p] = l]
                /\ pc' = [pc EXCEPT ![p] = "bulk_embed"]
                /\ resp' = [resp EXCEPT ![p] = NoResponse]
    /\ UNCHANGED <<cands, jobs, written, edited, memo, applications, blacklisted_tokens>>

(* The loop without its try block: a failure on one job ends the call. *)
BulkEmbedJobUnguarded(p) ==
    /\ pc[p] = "bulk_embed"
    /\ LET l == loc[p]
           job == l.items[l.i]
       IN  \E o \in embed_and_store_job(job, budget.faults) :
               /\ budget' = [budget EXCEPT !.faults = @ - o.nf]
               /\ jobs' = IF o.wrote THEN StoreEmbedding(jobs, job["_id"], o.emb) ELSE jobs
               /\ written' = IF o.wrote THEN CountWrite(jobs, job["_id"]) ELSE written
               /\ IF o.raised
                  THEN Respond(p, l, Raised)
                  ELSE IF l.i < Len(l.items)
                  THEN /\ loc' = [loc EXCEPT ![p].calls = @ + o.calls, ![p].i = @ + 1]
                       /\ UNCHANGED <<pc, resp, applications, blacklisted_tokens>>
                  ELSE Respond(p, l, Ok("count", Len(l.items)))
    /\ UNCHANGED <<cands, edited, memo, applications, blacklisted_tokens>>

(* Lines 122-127: one turn of the loop; a failure is printed and skipped. *)
BulkEmbedJob(p) ==
    /\ pc[p] = "bulk_embed"
    /\ LET l == loc[p]
           job == l.items[l.i]
       IN  \E o \in embed_and_store_job(job, budget.faults) :
               /\ budget' = [budget EXCEPT !.faults = @ - o.nf]
               /\ jobs' = IF o.wrote THEN StoreEmbedding(jobs, job["_id"], o.emb) ELSE jobs
               /\ written' = IF o.wrote THEN CountWrite(jobs, job["_id"]) ELSE written
               /\ IF l.i < Len(l.items)
                  THEN /\ loc' = [loc EXCEPT ![p].calls = @ + o.calls, ![p].i = @ + 1]
                       /\ UNCHANGED <<pc, resp, applications, blacklisted_tokens>>
                  ELSE Respond(p, l, Ok("count", Len(l.items)))
    /\ UNCHANGED <<cands, edited, memo, applications, blacklisted_tokens>>

---------------------------------------------------------------------------
(* Edits: routes/users.py (the candidate's own profile) and routes/hr.py    *)

CanEdit(p) == pc[p] = "idle" /\ budget.edits >= 1

(* The edit of handler p changed `coll` into `after`: its response, and the *)
(* ghost count of edits of the records that changed or went.                *)
EditDone(p, op, coll, after, r) ==
    LET changed == {id \in RecordIds :
                       /\ IndexOf(coll, "_id", id) # 0
                       /\ \/ IndexOf(after, "_id", id) = 0
                          \/ find_one(after, "_id", id) # find_one(coll, "_id", id)}
    IN  /\ budget' = [budget EXCEPT !.edits = @ - 1]
        /\ Respond(p, [NoLocals EXCEPT !.op = op], r)
        /\ edited' = [id \in RecordIds |->
                        IF id \in changed THEN edited[id] + 1 ELSE edited[id]]
        /\ memo' = [pair \in DOMAIN memo |->
                      IF pair[1] \in changed \/ pair[2] \in changed THEN -1 ELSE memo[pair]]

(* The fields of a candidate record a request body could name. *)
AnyField == {"name", "bio", "skills", "portfolio", "education", "experience", "embedding"}

(* The fields update_my_profile keeps of the request body. *)
AllowedFields == {"name", "bio", "skills", "portfolio", "education", "experience"}

UpdateData(updates) ==
    [k \in {f \in DOMAIN updates : f \in AllowedFields /\ updates[f] # <<>>} |-> updates[k]]

(* PUT /candidates/me *)
update_my_profile(p, email, updates) ==
    /\ CanEdit(p)
    /\ LET update_data == UpdateData(updates)
           after == update_one(cands, "email", email, update_data)
       IN  IF DOMAIN update_data = {}
           THEN /\ EditDone(p, "update_my_profile", cands, cands,
                            HttpError(400, "No valid fields to update."))
                /\ UNCHANGED <<cands, applications, blacklisted_tokens>>
           ELSE IF IndexOf(cands, "email", email) = 0
           THEN /\ EditDone(p, "update_my_profile", cands, cands,
                            HttpError(404, "Candidate not found."))
                /\ UNCHANGED <<cands, applications, blacklisted_tokens>>
           ELSE /\ EditDone(p, "update_my_profile", cands, after,
                            Ok("message", DOMAIN update_data))
                /\ cands' = after
    /\ UNCHANGED <<jobs, written, applications, blacklisted_tokens>>

(* update_one({"email": email}, {"$push": {field: item}}) *)
PushItem(coll, email, field, item) ==
    [i \in 1..Len(coll) |->
        IF i = IndexOf(coll, "email", email)
        THEN SetField(coll[i], field, Append(Get(coll[i], field), item))
        ELSE coll[i]]

(* Index of the first entry of list whose field key is value; 0 if none. *)
EntryIndex(list, key, value) ==
    LET hits == {j \in 1..Len(list) : Get(list[j], key) = value}
    IN  IF hits = {} THEN 0 ELSE CHOOSE j \in hits : \A k \in hits : j <= k

(* update_one({"email": email, field.key: value}, {"$set": {field.$: item}}) *)
SetItem(coll, email, field, key, value, item) ==
    LET docs == {i \in 1..Len(coll) :
                    /\ coll[i]["email"] = email
                    /\ EntryIndex(Get(coll[i], field), key, value) # 0}
    IN  IF docs = {} THEN coll
        ELSE LET n == CHOOSE i \in docs : \A j \in docs : i <= j
                 at == EntryIndex(coll[n][field], key, value)
             IN  [coll EXCEPT ![n] = SetField(@, field, [coll[n][field] EXCEPT ![at] = item])]

RECURSIVE Without(_, _, _)
Without(list, key, value) ==
    IF list = <<>> THEN <<>>
    ELSE (IF Get(list[1], key) = value THEN <<>> ELSE <<list[1]>>)
         \o Without(Tail(list), key, value)

(* update_one({"email": email}, {"$pull": {field: {key: value}}}) *)
PullItem(coll, email, field, key, value) ==
    [i \in 1..Len(coll) |->
        IF i = IndexOf(coll, "email", email) /\ field \in DOMAIN coll[i]
        THEN SetField(coll[i], field, Without(coll[i][field], key, value))
        ELSE coll[i]]

(* The twelve list routes end the same way: 404 when modified_count is 0. *)
ListEdit(p, op, after, missing) ==
    /\ CanEdit(p)
    /\ IF after = cands
       THEN EditDone(p, op, cands, cands, HttpError(404, missing))
       ELSE EditDone(p, op, cands, after, Ok("message", op))
    /\ cands' = after
    /\ UNCHANGED <<jobs, written, applications, blacklisted_tokens>>

(* POST /candidates/me/skills *)
add_skill(p, email, skill) ==
    ListEdit(p, "add_skill", PushItem(cands, email, "skills", skill), "Candidate not found")

(* PUT /candidates/me/skills/{skill_name} *)
update_skill(p, email, skill_name, updated_skill) ==
    ListEdit(p, "update_skill",
             SetItem(cands, email, "skills", "name", skill_name, updated_skill),
             "Skill not found")

(* DELETE /candidates/me/skills/{skill_name} *)
delete_skill(p, email, skill_name) ==
    ListEdit(p, "delete_skill", PullItem(cands, email, "skills", "name", skill_name),
             "Skill not found")

(* POST /candidates/me/portfolio *)
add_portfolio_item(p, email, portfolio_item) ==
    ListEdit(p, "add_portfolio_item", PushItem(cands, email, "portfolio", portfolio_item),
             "Candidate not found")

(* PUT /candidates/me/portfolio/{title} *)
update_portfolio_item(p, email, title, updated_portfolio) ==
    ListEdit(p, "update_portfolio_item",
             SetItem(cands, email, "portfolio", "title", title, updated_portfolio),
             "Portfolio item not found")

(* DELETE /candidates/me/portfolio/{title} *)
delete_portfolio_item(p, email, title) ==
    ListEdit(p, "delete_portfolio_item", PullItem(cands, email, "portfolio", "title", title),
             "Portfolio item not found")

(* POST /candidates/me/education *)
add_education(p, email, education) ==
    ListEdit(p, "add_education", PushItem(cands, email, "education", education),
             "Candidate not found")

(* PUT /candidates/me/education/{degree} *)
update_education(p, email, degree, updated_education) ==
    ListEdit(p, "update_education",
             SetItem(cands, email, "education", "degree", degree, updated_education),
             "Education not found")

(* DELETE /candidates/me/education/{degree} *)
delete_education(p, email, degree) ==
    ListEdit(p, "delete_education", PullItem(cands, email, "education", "degree", degree),
             "Education not found")

(* POST /candidates/me/experience *)
add_experience(p, email, experience) ==
    ListEdit(p, "add_experience", PushItem(cands, email, "experience", experience),
             "Candidate not found")

(* PUT /candidates/me/experience/{role} *)
update_experience(p, email, role, updated_experience) ==
    ListEdit(p, "update_experience",
             SetItem(cands, email, "experience", "role", role, updated_experience),
             "Experience not found")

(* DELETE /candidates/me/experience/{role} *)
delete_experience(p, email, role) ==
    ListEdit(p, "delete_experience", PullItem(cands, email, "experience", "role", role),
             "Experience not found")

(* The fields update_job sets: the truthy ones of the four it accepts. *)
JobUpdateData(params) ==
    [k \in {f \in DOMAIN params :
               f \in {"title", "description", "location", "required_skills"}
               /\ params[f] # <<>>} |-> params[k]]

(* PUT /hr/jobs/{job_id} *)
update_job(p, job_id, params, hr_email) ==
    /\ CanEdit(p)
    /\ LET update_data == JobUpdateData(params)
           n == IF ObjectIdValid(job_id) THEN IndexOf(jobs, "_id", ObjectId(job_id)) ELSE 0
           owned == n # 0 /\ jobs[n]["posted_by"] = hr_email
           after == IF owned THEN [jobs EXCEPT ![n] = SetFields(@, update_data)] ELSE jobs
       IN  /\ IF DOMAIN update_data = {}
              THEN EditDone(p, "update_job", jobs, jobs, HttpError(400, "No fields to update"))
              ELSE IF ~ObjectIdValid(job_id)
              THEN EditDone(p, "update_job", jobs, jobs, Raised)
              ELSE IF after = jobs
              THEN EditDone(p, "update_job", jobs, jobs,
                            HttpError(404, "Job not found or no changes made"))
              ELSE EditDone(p, "update_job", jobs, after, Ok("message", "Job updated successfully"))
           /\ jobs' = IF DOMAIN update_data = {} THEN jobs ELSE after
    /\ UNCHANGED <<cands, written, applications, blacklisted_tokens>>

(* DELETE /hr/jobs/{job_id} *)
delete_job(p, job_id, hr_email) ==
    /\ CanEdit(p)
    /\ LET after == IF ObjectIdValid(job_id) THEN delete_one(jobs, ObjectId(job_id), hr_email)
                    ELSE jobs
       IN  /\ IF ~ObjectIdValid(job_id)
              THEN EditDone(p, "delete_job", jobs, jobs, HttpError(400, "Invalid job ID"))
              ELSE IF after = jobs
              THEN EditDone(p, "delete_job", jobs, jobs, HttpError(404, "Job not found"))
              ELSE EditDone(p, "delete_job", jobs, after, Ok("message", "Job deleted successfully"))
           /\ jobs' = after
    /\ UNCHANGED <<cands, written, applications, blacklisted_tokens>>

---------------------------------------------------------------------------
(* Inputs of the requests *)

Emails == {"a@x", "b@x"}

(* The id of JobHr, the id of JobApi in upper case, the id of JobBlank, and *)
(* no ObjectId.                                                             *)
JobIdInputs == {Oid("a"), Oid("B"), Oid("c"), <<"x", "y", "z">>}

TopNs == {1, 2}

Sources == {"", "api"}

ProfileUpdates ==
    { [bio |-> <<"q">>],
      [skills |-> << [name |-> <<"p">>, level |-> 500] >>, bio |-> <<>>],
      [embedding |-> <<0, 5>>, password |-> "x"] }

SkillInputs == { [name |-> <<"s">>, level |-> 100] }

ExperienceInputs == { [role |-> <<"e">>, company |-> <<"c">>, description |-> <<"f">>] }

EducationInputs == { [degree |-> <<"b">>, institution |-> <<"a">>] }

PortfolioInputs == { [title |-> <<"t">>, description |-> <<>>] }

JobUpdates == { [title |-> <<"s">>, description |-> <<>>], [required_skills |-> << <<"q">> >>] }

HrEmails == {"hr@x"}

(* The inputs of the concurrent handlers. *)
RaceEmails == {"a@x"}

RaceTopNs == {2}

RaceSources == {""}

RacePopulations == { [cands |-> <<CandA>>, jobs |-> <<JobHr>>] }

---------------------------------------------------------------------------
(* Next-state relations *)

(* Handler p takes a request of the matching routes or the engine. *)
Request(p, emails, topns, sources) ==
    \/ \E e \in emails, j \in JobIdInputs : CalculateScoreStart(p, e, j)
    \/ \E e \in emails, n \in topns, src \in sources : RecommendedJobsStart(p, e, n, src)
    \/ \E j \in JobIdInputs, n \in topns : RecommendedCandidatesStart(p, j, n)
    \/ \E e \in emails, j \in JobIdInputs : SkillGapStart(p, e, j)
    \/ \E src \in sources : BulkEmbedStart(p, src)

(* Handler p takes the next step of its request. *)
Step(p) ==
    \/ CmsEnter(p)
    \/ CmsCandidate(p)
    \/ CmsCandidateEmbed(p)
    \/ CmsJob(p)
    \/ CmsJobEmbed(p)
    \/ CalculateScoreJob(p)
    \/ CalculateScoreReturn(p)
    \/ FjEmbed(p)
    \/ FjReload(p)
    \/ FjJobs(p)
    \/ FjCollect(p)
    \/ FcEmbed(p)
    \/ FcReload(p)
    \/ FcCandidates(p)
    \/ FcCandidateEmbed(p)
    \/ FcCandidateReload(p)
    \/ FcCollect(p)
    \/ SkillGapJob(p)
    \/ BulkEmbedJob(p)

(* Handler p serves one of the list routes of routes/users.py. *)
ListEdits(p) ==
    \E e \in Emails :
        \/ \E x \in SkillInputs : add_skill(p, e, x)
        \/ \E x \in SkillInputs : update_skill(p, e, <<"P">>, x)
        \/ delete_skill(p, e, <<"P">>)
        \/ \E x \in PortfolioInputs : add_portfolio_item(p, e, x)
        \/ \E x \in PortfolioInputs : update_portfolio_item(p, e, <<"t">>, x)
        \/ delete_portfolio_item(p, e, <<"t">>)
        \/ \E x \in EducationInputs : add_education(p, e, x)
        \/ \E x \in EducationInputs : update_education(p, e, <<"b">>, x)
        \/ delete_education(p, e, <<"b">>)
        \/ \E x \in ExperienceInputs : add_experience(p, e, x)
        \/ \E x \in ExperienceInputs : update_experience(p, e, <<"d">>, x)
        \/ delete_experience(p, e, <<"d">>)

(* Concurrent handlers: requests, and the edits that race with them. *)
Init == InitWith(RacePopulations, RaceReqs, RaceFaults, RaceEdits)

Next ==
    \E p \in Procs :
        \/ Request(p, RaceEmails, RaceTopNs, RaceSources)
        \/ Step(p)
        \/ \E e \in RaceEmails, u \in ProfileUpdates : update_my_profile(p, e, u)
        \/ \E j \in JobIdInputs, h \in HrEmails : delete_job(p, j, h)

Spec == Init /\ [][Next]_vars

(* One handler: requests and edits one after the other. *)
InitSeq == InitWith(Populations, MaxReqs, MaxFaults, MaxEdits)

NextSeq ==
    \/ Request(1, Emails, TopNs, Sources)
    \/ Step(1)
    \/ \E e \in Emails, u \in ProfileUpdates : update_my_profile(1, e, u)
    \/ ListEdits(1)
    \/ \E j \in JobIdInputs, u \in JobUpdates, h \in HrEmails : update_job(1, j, u, h)
    \/ \E j \in JobIdInputs, h \in HrEmails : delete_job(1, j, h)

SpecSeq == InitSeq /\ [][NextSeq]_vars

---------------------------------------------------------------------------
(* The engine called directly: matching_engine.calculate_match_score on     *)
(* records the caller holds, stored ones or ones built without an identity. *)

(* A record as a caller builds it: no "_id", no "embedding". *)
Transient(doc) == Project(Project(doc, "_id"), "embedding")

DirectScoreStart(p, candidate, job) ==
    /\ CanStart(p)
    /\ loc' = [loc EXCEPT ![p] =
                   CallScore([NoLocals EXCEPT !.op = "match_score"], candidate, job, "ds_return")]
    /\ pc' = [pc EXCEPT ![p] = "cms_enter"]
    /\ resp' = [resp EXCEPT ![p] = NoResponse]
    /\ budget' = [budget EXCEPT !.reqs = @ - 1]
    /\ UNCHANGED <<cands, jobs, written, edited, memo, applications, blacklisted_tokens>>

DirectScoreReturn(p) ==
    /\ pc[p] = "ds_return"
    /\ Respond(p, loc[p], IF loc[p].exc THEN Raised ELSE Ok("score", loc[p].score))
    /\ UNCHANGED <<cands, jobs, budget, written, edited, memo, applications, blacklisted_tokens>>

(* The vectors a direct caller resolves: none, the zero vector, and         *)
(* vectors of the provider.                                                 *)
EngineVectors == {None, <<0, 0>>, <<3, 4>>, <<5, 0>>, <<-4, -3>>}

(* A candidate record after PUT /candidates/me stored a skill level that    *)
(* the route does not validate.                                             *)
Overrated(doc) == SetField(doc, "skills", << [name |-> <<"p">>, level |-> 500] >>)

(* Lines 209-214 of calculate_match_score on the embeddings a and b the     *)
(* call resolved for the candidate and the job.                             *)
ScoreOfCall(p, candidate, job, a, b) ==
    /\ CanStart(p)
    /\ budget' = [budget EXCEPT !.reqs = @ - 1]
    /\ Respond(p, [NoLocals EXCEPT !.op = "final_score"],
               Ok("final", [candidate |-> candidate, job |-> job,
                            candidate_emb |-> a, job_emb |-> b,
                            score |-> final_score(candidate, job, a, b)]))
    /\ UNCHANGED <<cands, jobs, written, edited, memo, applications, blacklisted_tokens>>

InitEngine == InitWith(RacePopulations, EngineReqs, EngineFaults, 0)

NextEngine ==
    \/ \E c \in {cands[1], Transient(cands[1])}, j \in {jobs[1], Transient(jobs[1])} :
           DirectScoreStart(1, c, j)
    \/ \E c \in {cands[1], Overrated(cands[1])}, a \in EngineVectors, b \in EngineVectors :
           ScoreOfCall(1, c, jobs[1], a, b)
    \/ CmsEnter(1)
    \/ CmsCandidate(1)
    \/ CmsCandidateEmbed(1)
    \/ CmsJob(1)
    \/ CmsJobEmbed(1)
    \/ DirectScoreReturn(1)

SpecEngine == InitEngine /\ [][NextEngine]_vars

---------------------------------------------------------------------------
(* The skill overlap scorer called directly:                                *)
(* matching_engine._calculate_skill_match(candidate, job).                  *)

(* Candidates by their skills: none; one; three of levels whose sum rounds  *)
(* differently in different orders; one name twice, in two cases; a level   *)
(* of 0; a level PUT /candidates/me stored unvalidated; an entry without a  *)
(* name; two skills of which a job requires one.                            *)
SkillCandidates ==
    { SetField(CandB, "skills", skills) : skills \in
        { <<>>,
          << [name |-> <<"P">>, level |-> 80] >>,
          << [name |-> <<"p">>, level |-> 5], [name |-> <<"q">>, level |-> 5],
             [name |-> <<"s">>, level |-> 20] >>,
          << [name |-> <<"p">>, level |-> 40], [name |-> <<"P">>, level |-> 90] >>,
          << [name |-> <<"p">>, level |-> 0], [name |-> <<"q">>, level |-> 100] >>,
          << [name |-> <<"p">>, level |-> 500] >>,
          << [name |-> <<>>, level |-> 50], [name |-> <<"Q">>, level |-> 30] >>,
          << [name |-> <<"s">>, level |-> 35], [name |-> <<"a">>, level |-> 60] >> } }

(* Jobs by their required skills: none; one; three; a skill no candidate    *)
(* has; one skill twice; names in upper case.                               *)
SkillJobs ==
    { SetField(JobHr, "required_skills", required) : required \in
        { <<>>,
          << <<"p">> >>,
          << <<"p">>, <<"q">>, <<"s">> >>,
          << <<"s">>, <<"Q">>, <<"p">> >>,
          << <<"q">>, <<"b">> >>,
          << <<"p">>, <<"p">> >>,
          << <<"P">>, <<"q">> >>,
          << <<"b">> >> } }

(* One call: `value` is the quotient in units of 1/Scale, as the score      *)
(* arithmetic of this model takes it; `binary64` is the float returned.     *)
SkillMatchCall(p, candidate, job) ==
    /\ CanStart(p)
    /\ budget' = [budget EXCEPT !.reqs = @ - 1]
    /\ Respond(p, [NoLocals EXCEPT !.op = "skill_match"],
               Ok("skill_match",
                  [candidate |-> candidate, job |-> job,
                   value     |-> calculate_skill_match(candidate, job),
                   binary64  |-> calculate_skill_match_binary64(candidate, job)]))
    /\ UNCHANGED <<cands, jobs, written, edited, memo, applications, blacklisted_tokens>>

(* Lines 289-306 of analyze_skill_gaps on the two records it resolved. *)
SkillGapCall(p, candidate, job) ==
    /\ CanStart(p)
    /\ budget' = [budget EXCEPT !.reqs = @ - 1]
    /\ Respond(p, [NoLocals EXCEPT !.op = "skill_gaps"],
               Ok("skill_gaps", [candidate |-> candidate, job |-> job,
                                 result    |-> skill_gap_analysis(candidate, job)]))
    /\ UNCHANGED <<cands, jobs, written, edited, memo, applications, blacklisted_tokens>>

(* A candidate with n experience entries. *)
Experienced(n) ==
    SetField(CandB, "experience",
             [i \in 1..n |-> [role |-> <<"d">>, company |-> <<"c">>, description |-> <<>>]])

(* matching_engine._calculate_experience_boost(candidate) *)
ExperienceBoostCall(p, candidate) ==
    /\ CanStart(p)
    /\ budget' = [budget EXCEPT !.reqs = @ - 1]
    /\ Respond(p, [NoLocals EXCEPT !.op = "experience_boost"],
               Ok("experience_boost",
                  [candidate |-> candidate, value |-> calculate_experience_boost(candidate)]))
    /\ UNCHANGED <<cands, jobs, written, edited, memo, applications, blacklisted_tokens>>

(* Candidates by their profile: the stored ones; after POST                 *)
(* /candidates/me/skills added a skill of name "" to a profile with a bio   *)
(* and an experience and no other skill; with that skill alone; with        *)
(* entries some of whose fields are empty.                                  *)
TextCandidates ==
    { CandA, CandB, CandC,
      SetFields(CandA, [skills |-> << [name |-> <<>>, level |-> 0] >>]),
      SetFields(CandB, [skills |-> << [name |-> <<>>, level |-> 0] >>]),
      SetFields(CandB, [education |-> << [degree |-> <<>>, institution |-> <<"a">>] >>,
                        portfolio |-> << [title |-> <<"t">>, description |-> <<>>],
                                         [title |-> <<>>, description |-> <<"f">>] >>]) }

(* matching_engine._extract_candidate_text(candidate) *)
ExtractTextCall(p, candidate) ==
    /\ CanStart(p)
    /\ budget' = [budget EXCEPT !.reqs = @ - 1]
    /\ Respond(p, [NoLocals EXCEPT !.op = "candidate_text"],
               Ok("candidate_text",
                  [candidate |-> candidate, text |-> extract_candidate_text(candidate)]))
    /\ UNCHANGED <<cands, jobs, written, edited, memo, applications, blacklisted_tokens>>

InitSkill == InitWith(Populations, SkillCalls, 0, 0)

NextSkill ==
    \/ \E c \in SkillCandidates, j \in SkillJobs : SkillMatchCall(1, c, j)
    \/ \E c \in SkillCandidates, j \in SkillJobs : SkillGapCall(1, c, j)
    \/ \E n \in 0..MaxEntries : ExperienceBoostCall(1, Experienced(n))
    \/ ExperienceBoostCall(1, Project(CandB, "experience"))
    \/ \E c \in TextCandidates : ExtractTextCall(1, c)

SpecSkill == InitSkill /\ [][NextSkill]_vars

---------------------------------------------------------------------------
(* Inserts and tokens: utils/utils.py, routes/hr.py (create_job),          *)
(* ai/job_fetcher.py and routes/job_fetcher.py                             *)

(* The identities the stored documents carry. *)
UsedIds ==
    {cands[i]["_id"] : i \in 1..Len(cands)} \cup {jobs[i]["_id"] : i \in 1..Len(jobs)}
        \cup {applications[i]["_id"] : i \in 1..Len(applications)}
        \cup {blacklisted_tokens[i]["_id"] : i \in 1..Len(blacklisted_tokens)}

(* The store can give one more identity. *)
CanInsert == \E i \in 1..Len(NewIds) : NewIds[i] \notin UsedIds

(* result.inserted_id of the next insert_one. *)
NewId ==
    NewIds[CHOOSE i \in 1..Len(NewIds) :
               NewIds[i] \notin UsedIds /\ \A k \in 1..(i - 1) : NewIds[k] \in UsedIds]

(* collection.insert_one(doc) *)
insert_one(coll, doc) == Append(coll, SetField(doc, "_id", NewId))

(* A bearer token is held as what jwt.decode makes of it: its payload, and  *)
(* whether its signature and expiry pass.                                   *)
decode_access_token(token) ==
    IF ~token.verifies \/ token.sub = "" THEN None
    ELSE [email |-> token.sub, name |-> token.name, role |-> token.role]

(* The dependency's result: the user, or the HTTPException it raises. *)
get_current_user(token) ==
    IF decode_access_token(token) = None
    THEN HttpError(401, "Could not validate credentials")
    ELSE Ok("user", decode_access_token(token))

get_current_candidate(token) ==
    LET current_user == get_current_user(token)
    IN  IF current_user.kind = "user" /\ current_user.value.role # "candidate"
        THEN HttpError(403, "Not authorized. Candidate access required.")
        ELSE current_user

get_current_hr(token) ==
    LET current_user == get_current_user(token)
    IN  IF current_user.kind = "user" /\ current_user.value.role # "hr"
        THEN HttpError(403, "Not authorized. HR access required.")
        ELSE current_user

(* POST /hr/jobs: job is job.model_dump(). *)
create_job(p, token, job) ==
    /\ CanStart(p)
    /\ CanInsert
    /\ budget' = [budget EXCEPT !.reqs = @ - 1]
    /\ LET l == [NoLocals EXCEPT !.op = "create_job", !.token = token]
           current_user == get_current_hr(token)
       IN  IF current_user.kind # "user"
           THEN Respond(p, l, current_user) /\ UNCHANGED jobs
           ELSE LET job_dict == SetFields(job, [created_at |-> "utcnow",
                                                posted_by |-> current_user.value.email])
                IN  /\ jobs' = insert_one(jobs, job_dict)
                    /\ Respond(p, l, [kind |-> "job_created", status |-> 201,
                                      detail |-> "Job created successfully",
                                      value |-> NewId])
    /\ UNCHANGED <<cands, written, edited, memo, applications, blacklisted_tokens>>

MAX_RETRIES == 3

RETRY_DELAY == 2

COMMON_SKILLS ==
    <<<<"p", "y", "t", "h", "o", "n">>, <<"j", "a", "v", "a">>,
      <<"j", "a", "v", "a", "s", "c", "r", "i", "p", "t">>,
      <<"t", "y", "p", "e", "s", "c", "r", "i", "p", "t">>,
      <<"r", "e", "a", "c", "t">>, <<"a", "n", "g", "u", "l", "a", "r">>,
      <<"v", "u", "e">>, <<"n", "o", "d", "e">>,
      <<"d", "j", "a", "n", "g", "o">>, <<"f", "l", "a", "s", "k">>,
      <<"f", "a", "s", "t", "a", "p", "i">>, <<"s", "q", "l">>,
      <<"m", "y", "s", "q", "l">>,
      <<"p", "o", "s", "t", "g", "r", "e", "s", "q", "l">>,
      <<"m", "o", "n", "g", "o", "d", "b">>, <<"a", "w", "s">>,
      <<"a", "z", "u", "r", "e">>, <<"d", "o", "c", "k", "e", "r">>,
      <<"k", "u", "b", "e", "r", "n", "e", "t", "e", "s">>,
      <<"g", "i", "t">>, <<"l", "i", "n", "u", "x">>, <<"h", "t", "m", "l">>,
      <<"c", "s", "s">>, <<"p", "a", "n", "d", "a", "s">>,
      <<"n", "u", "m", "p", "y">>,
      <<"m", "a", "c", "h", "i", "n", "e", " ", "l", "e", "a", "r", "n", "i", "n", "g">>,
      <<"a", "i">>, <<"d", "e", "v", "o", "p", "s">>>>

(* word in text *)
Contains(text, word) ==
    \E k \in 0..(Len(text) - Len(word)) : SubSeq(text, k + 1, k + Len(word)) = word

(* The lists list(S) can be for a set S: the order is the interpreter's. *)
Orderings(S) ==
    {list \in [1..Cardinality(S) -> S] :
        \A a, b \in 1..Cardinality(S) : a # b => list[a] # list[b]}

(* extract_skills(text): the lists it can return. *)
extract_skills(text) ==
    IF text = <<>> THEN {<<>>}
    ELSE Orderings({COMMON_SKILLS[i] : i \in {k \in 1..Len(COMMON_SKILLS) :
                                                Contains(Lower(text), COMMON_SKILLS[k])}})

RECURSIVE Split(_, _)
(* s.split(sep) for a one-character sep *)
Split(s, sep) ==
    IF \A i \in 1..Len(s) : s[i] # sep THEN <<s>>
    ELSE LET k == CHOOSE i \in 1..Len(s) : s[i] = sep /\ \A h \in 1..(i - 1) : s[h] # sep
         IN  <<SubSeq(s, 1, k - 1)>> \o Split(SubSeq(s, k + 1, Len(s)), sep)

RECURSIVE Stripped(_)
(* [s.strip() for s in parts if s.strip()] *)
Stripped(parts) ==
    IF parts = <<>> THEN <<>>
    ELSE (IF Strip(parts[1]) = <<>> THEN <<>> ELSE <<Strip(parts[1])>>) \o Stripped(Tail(parts))

(* Lines 72-74: the skill lists an API item can be given. *)
item_skills(j) ==
    LET skills == Stripped(Split(Get(j, "job_required_skills"), ","))
    IN  IF skills # <<>> THEN {skills} ELSE extract_skills(Get(j, "job_description"))

(* Lines 76-85 *)
job_doc(j, skills) ==
    [title |-> Get(j, "job_title"), company |-> Get(j, "employer_name"),
     location |-> IF Truthy(j, "job_city") THEN j.job_city ELSE Get(j, "job_country"),
     description |-> Get(j, "job_description"), required_skills |-> skills,
     job_type |-> Get(j, "job_employment_type"),
     source |-> "api", posted_by |-> "system@autofetch.ai"]

(* API items: one carrying its skills, one whose skills come from its      *)
(* description, one carrying no field.                                      *)
ItemListed ==
    [job_title |-> <<"q">>, employer_name |-> <<"c">>, job_description |-> <<"s">>,
     job_required_skills |-> <<"s", ",", " ", "P", ",", " ">>]

ItemDescribed ==
    [job_title |-> <<"t">>, job_country |-> <<"f">>,
     job_description |-> <<"C", "S", "S", " ", "d">>, job_required_skills |-> None]

ItemBlank == <<>>

(* The "data" lists of the API's answers. *)
ApiResults == {<<>>, <<ItemBlank>>, <<ItemListed, ItemDescribed>>}

(* GET /jobs/fetch: the call of search_jobs. *)
FetchJobsStart(p, limit, auto_store) ==
    /\ CanStart(p)
    /\ budget' = [budget EXCEPT !.reqs = @ - 1]
    /\ loc' = [loc EXCEPT ![p] = [NoLocals EXCEPT !.op = "fetch_jobs", !.limit = limit,
                                                 !.auto_store = auto_store,
                                                 !.attempt = 1]]
    /\ pc' = [pc EXCEPT ![p] = "sj_request"]
    /\ resp' = [resp EXCEPT ![p] = NoResponse]
    /\ UNCHANGED <<cands, jobs, written, edited, memo, applications, blacklisted_tokens>>

(* The status codes the job API answers with. *)
StatusCodes == {200, 401, 429, 500}

(* What remains of a request of search_jobs after the API answered 200     *)
(* with `data`.                                                             *)
SjFetched(p, l, data) ==
    LET items == Take(data, l.limit)
    IN  IF items = <<>>
        THEN Respond(p, l, Ok("fetched", [count |-> 0, jobs |-> <<>>]))
        ELSE /\ loc' = [loc EXCEPT ![p] = [l EXCEPT !.items = items, !.i = 1]]
             /\ pc' = [pc EXCEPT ![p] = "sj_insert"]
             /\ UNCHANGED resp

(* The loop were every answer but 200 retried. *)
SjRequestRetryingAll(p) ==
    /\ pc[p] = "sj_request"
    /\ \E status \in StatusCodes :
           LET l == [loc[p] EXCEPT !.status = status]
           IN  IF status = 200
               THEN \E data \in ApiResults : SjFetched(p, l, data)
               ELSE LET slept == [l EXCEPT !.slept = @ + RETRY_DELAY * l.attempt]
                    IN  IF l.attempt < MAX_RETRIES
                        THEN /\ loc' = [loc EXCEPT ![p] = [slept EXCEPT !.attempt = @ + 1]]
                             /\ UNCHANGED <<pc, resp>>
                        ELSE Respond(p, slept,
                                     HttpError(500, "Job API fetch failed after retries"))
    /\ UNCHANGED <<cands, jobs, budget, written, edited, memo, applications,
                   blacklisted_tokens>>

(* Lines 52-66: one turn of the retry loop, from requests.get to break,     *)
(* raise or continue; fetch_jobs turns an exception into a 500.             *)
SjRequest(p) ==
    /\ pc[p] = "sj_request"
    /\ \E status \in StatusCodes :
           LET l == [loc[p] EXCEPT !.status = status]
           IN  CASE status = 200 -> \E data \in ApiResults : SjFetched(p, l, data)
                 [] status = 401 ->
                        Respond(p, l, HttpError(500, "Invalid API key. Please check your RapidAPI key!"))
                 [] status = 429 ->
                        LET slept == [l EXCEPT !.slept = @ + RETRY_DELAY * l.attempt]
                        IN  IF l.attempt < MAX_RETRIES
                            THEN /\ loc' = [loc EXCEPT ![p] = [slept EXCEPT !.attempt = @ + 1]]
                                 /\ UNCHANGED <<pc, resp>>
                            ELSE Respond(p, slept,
                                         HttpError(500, "Job API fetch failed after retries"))
                 [] OTHER -> Respond(p, l, HttpError(500, "Job API error"))
    /\ UNCHANGED <<cands, jobs, budget, written, edited, memo, applications,
                   blacklisted_tokens>>

(* embed_and_store_job not called. *)
NotEmbedded == [emb |-> None, wrote |-> FALSE, raised |-> FALSE, calls |-> 0, io |-> 0, nf |-> 0]

(* Lines 70-98: one turn of the loop over the items, and the response      *)
(* after the last; a failure of the embedding is printed and skipped.       *)
SjInsert(p) ==
    /\ pc[p] = "sj_insert"
    /\ CanInsert
    /\ LET l == loc[p]
       IN  \E skills \in item_skills(l.items[l.i]) :
               LET doc == SetField(job_doc(l.items[l.i], skills), "_id", NewId)
                   inserted == Append(l.inserted, doc)
               IN  \E o \in (IF l.auto_store
                             THEN embed_and_store_job(doc, budget.faults)
                             ELSE {NotEmbedded}) :
                       /\ budget' = [budget EXCEPT !.faults = @ - o.nf]
                       /\ jobs' = IF o.wrote
                                  THEN StoreEmbedding(insert_one(jobs, doc), NewId, o.emb)
                                  ELSE insert_one(jobs, doc)
                       /\ written' = IF o.wrote THEN [written EXCEPT ![NewId] = @ + 1]
                                     ELSE written
                       /\ IF l.i < Len(l.items)
                          THEN /\ loc' = [loc EXCEPT ![p].i = @ + 1, ![p].inserted = inserted]
                               /\ UNCHANGED <<pc, resp>>
                          ELSE Respond(p, l, Ok("fetched", [count |-> Len(inserted),
                                                            jobs |-> inserted]))
    /\ UNCHANGED <<cands, edited, memo, applications, blacklisted_tokens>>

(* Bearer tokens: a candidate's, an HR user's, and one jwt.decode rejects. *)
TokenA == [sub |-> "a@x", name |-> "a", role |-> "candidate", verifies |-> TRUE]

TokenHr == [sub |-> "hr@x", name |-> "h", role |-> "hr", verifies |-> TRUE]

TokenForged == [sub |-> "hr@x", name |-> "h", role |-> "hr", verifies |-> FALSE]

Tokens == {TokenA, TokenHr, TokenForged}

(* Bodies of POST /hr/jobs as model_dump gives them. *)
JobBodies ==
    { [title |-> <<"p">>, description |-> <<"d">>, required_skills |-> << <<"p">> >>,
       job_type |-> <<"f">>, location |-> None, created_at |-> None] }

Limits == {1, 2}

InitJobs == InitWith(Populations, JobsReqs, JobsFaults, 0)

NextJobs ==
    \/ \E token \in Tokens, job \in JobBodies : create_job(1, token, job)
    \/ \E limit \in Limits, auto_store \in BOOLEAN : FetchJobsStart(1, limit, auto_store)
    \/ SjRequest(1)
    \/ SjInsert(1)

SpecJobs == InitJobs /\ [][NextJobs]_vars

---------------------------------------------------------------------------
(* Accounts and applications: routes/auth.py, routes/users.py (get_my_profile) *)
(* and routes/apps.py                                                       *)

(* validate_password: the error message, "" for a password that passes. *)
validate_password(password) ==
    IF Len(password) < 8 THEN "Password must be at least 8 characters long"
    ELSE IF Len(password) > 128 THEN "Password must not exceed 128 characters"
    ELSE ""

(* get_password_hash: a value that is not the password and tells it. *)
get_password_hash(password) == [bcrypt |-> password]

(* Lines 82-98 of register_candidate: the password check and the lookup of  *)
(* the email.                                                               *)
RegisterStart(p, candidate) ==
    /\ CanStart(p)
    /\ budget' = [budget EXCEPT !.reqs = @ - 1]
    /\ LET l == [NoLocals EXCEPT !.op = "register_candidate", !.email = candidate.email,
                                 !.candidate = candidate]
       IN  IF validate_password(candidate.password) # ""
           THEN Respond(p, l, HttpError(400, validate_password(candidate.password)))
           ELSE IF find_one(cands, "email", candidate.email) # None
           THEN Respond(p, l, HttpError(400, "Email already registered"))
           ELSE /\ loc' = [loc EXCEPT ![p] = l]
                /\ pc' = [pc EXCEPT ![p] = "reg_insert"]
                /\ resp' = [resp EXCEPT ![p] = NoResponse]
    /\ UNCHANGED <<cands, jobs, written, edited, memo, applications, blacklisted_tokens>>

(* Lines 100-121: the document, insert_one and the response. *)
RegisterInsert(p) ==
    /\ pc[p] = "reg_insert"
    /\ CanInsert
    /\ LET l == loc[p]
           candidate_dict == SetField(l.candidate, "password",
                                      get_password_hash(l.candidate.password))
       IN  /\ cands' = insert_one(cands, candidate_dict)
           /\ Respond(p, l, [kind |-> "registered", status |-> 201,
                             detail |-> "Candidate registered successfully",
                             value |-> [user_id |-> NewId,
                                        access_token |-> [sub |-> l.email, role |-> "candidate"]]])
    /\ UNCHANGED <<jobs, budget, written, edited, memo, applications, blacklisted_tokens>>

(* is_token_blacklisted(token) *)
is_token_blacklisted(token) ==
    \E i \in 1..Len(blacklisted_tokens) : blacklisted_tokens[i].token = token

(* The collection after blacklist_token(token). *)
blacklist_token(token) ==
    IF is_token_blacklisted(token) THEN blacklisted_tokens
    ELSE insert_one(blacklisted_tokens, [token |-> token, blacklisted_at |-> "utcnow"])

(* POST /auth/logout with "Authorization: Bearer <token>". *)
logout(p, token) ==
    /\ CanStart(p)
    /\ CanInsert
    /\ budget' = [budget EXCEPT !.reqs = @ - 1]
    /\ LET l == [NoLocals EXCEPT !.op = "logout", !.token = token]
           current_user == get_current_user(token)
       IN  IF current_user.kind # "user"
           THEN Respond(p, l, current_user) /\ UNCHANGED blacklisted_tokens
           ELSE IF is_token_blacklisted(token)
           THEN /\ Respond(p, l, Ok("message", "Token already invalidated"))
                /\ UNCHANGED blacklisted_tokens
           ELSE /\ blacklisted_tokens' = blacklist_token(token)
                /\ Respond(p, [l EXCEPT !.email = current_user.value.email],
                           Ok("message", "Logout successful"))
    /\ UNCHANGED <<cands, jobs, written, edited, memo, applications>>

(* GET /candidates/me *)
get_my_profile(p, token) ==
    /\ CanStart(p)
    /\ budget' = [budget EXCEPT !.reqs = @ - 1]
    /\ LET l == [NoLocals EXCEPT !.op = "get_my_profile", !.token = token]
           current_user == get_current_candidate(token)
       IN  IF current_user.kind # "user"
           THEN Respond(p, l, current_user)
           ELSE LET user == find_one(cands, "email", current_user.value.email)
                IN  IF user = None
                    THEN Respond(p, l, HttpError(404, "Candidate not found"))
                    ELSE Respond(p, l, Ok("profile", Project(user, "_id")))
    /\ UNCHANGED <<cands, jobs, written, edited, memo, applications, blacklisted_tokens>>

(* find_one({"candidate_email": email, "job_id": job_id}) finds a document. *)
existing_application(email, job_id) ==
    \E i \in 1..Len(applications) :
        applications[i].candidate_email = email /\ applications[i].job_id = job_id

(* Lines 14-66 of apply_to_job: the lookups, up to the call of              *)
(* calculate_match_score.                                                   *)
ApplyStart(p, token, job_id) ==
    /\ CanStart(p)
    /\ budget' = [budget EXCEPT !.reqs = @ - 1]
    /\ LET current_user == get_current_candidate(token)
           email == IF current_user.kind = "user" THEN current_user.value.email ELSE ""
           l == [NoLocals EXCEPT !.op = "apply_to_job", !.token = token, !.email = email,
                                 !.job_id = job_id]
           job == find_one(jobs, "_id", ObjectId(job_id))
           candidate == find_one(cands, "email", email)
       IN  IF current_user.kind # "user" THEN Respond(p, l, current_user)
           ELSE IF ~ObjectIdValid(job_id) THEN Respond(p, l, HttpError(400, "Invalid job ID"))
           ELSE IF job = None THEN Respond(p, l, HttpError(404, "Job not found"))
           ELSE IF existing_application(email, job_id)
           THEN Respond(p, l, HttpError(400, "You have already applied to this job"))
           ELSE IF candidate = None THEN Respond(p, l, HttpError(404, "Candidate not found"))
           ELSE /\ loc' = [loc EXCEPT ![p] = CallScore(l, candidate, job, "apply_insert")]
                /\ pc' = [pc EXCEPT ![p] = "cms_enter"]
                /\ resp' = [resp EXCEPT ![p] = NoResponse]
    /\ UNCHANGED <<cands, jobs, written, edited, memo, applications, blacklisted_tokens>>

(* Lines 62-82: the score (0.0 when the call raised), the application and   *)
(* the response.                                                            *)
ApplyInsert(p) ==
    /\ pc[p] = "apply_insert"
    /\ CanInsert
    /\ LET l == loc[p]
           match_score == IF l.exc THEN 0 ELSE l.score
           application == [candidate_email |-> l.email, job_id |-> l.job_id,
                           applied_at |-> "utcnow", status |-> "pending",
                           matching_score |-> match_score,
                           job_source |-> IF "source" \in DOMAIN l.job THEN l.job.source
                                          ELSE "unknown"]
       IN  /\ applications' = insert_one(applications, application)
           /\ Respond(p, l, [kind |-> "applied", status |-> 201,
                             detail |-> "Application submitted successfully",
                             value |-> [application_id |-> NewId,
                                        match_score |-> match_score]])
    /\ UNCHANGED <<cands, jobs, budget, written, edited, memo, blacklisted_tokens>>

(* A password of n characters. *)
Password(n) == [i \in 1..n |-> "p"]

(* The body of POST /auth/register/candidate as CandidateCreate holds it. *)
CandidateCreate(email, password) ==
    [name |-> <<"d">>, email |-> email, role |-> "candidate", bio |-> None,
     profile_picture |-> None, password |-> password, skills |-> <<>>,
     portfolio |-> <<>>, education |-> <<>>, experience |-> <<>>]

Registrations ==
    {CandidateCreate("d@x", Password(8)), CandidateCreate("a@x", Password(8)),
     CandidateCreate("d@x", Password(7)), CandidateCreate("d@x", Password(129))}

ApplyJobIds == {Oid("b"), Oid("B"), <<"x", "y", "z">>}

InitAccounts == InitWith(Populations, AccountReqs, AccountFaults, 0)

NextAccounts ==
    \/ \E p \in Procs, candidate \in Registrations : RegisterStart(p, candidate)
    \/ \E p \in Procs : RegisterInsert(p)
    \/ \E p \in Procs, token \in Tokens : logout(p, token)
    \/ \E p \in Procs, token \in Tokens : get_my_profile(p, token)
    \/ \E p \in Procs, token \in Tokens, job_id \in ApplyJobIds : ApplyStart(p, token, job_id)
    \/ \E p \in Procs : CmsEnter(p)
    \/ \E p \in Procs : CmsCandidate(p)
    \/ \E p \in Procs : CmsCandidateEmbed(p)
    \/ \E p \in Procs : CmsJob(p)
    \/ \E p \in Procs : CmsJobEmbed(p)
    \/ \E p \in Procs : ApplyInsert(p)

SpecAccounts == InitAccounts /\ [][NextAccounts]_vars

---------------------------------------------------------------------------
(* Properties *)

(* The texts of the records a call of calculate_match_score was given. *)
CallTexts(l) ==
    [candidate |-> extract_candidate_text(l.candidate), job |-> extract_job_text(l.job)]

(* The call of handler p returned (or raised) and was given two records. *)
ScoredPair(p) == CmsReturned(p) /\ loc[p].candidate # None /\ loc[p].job # None

(* The embedding stored on record id of coll; None when there is none. *)
StoredEmbedding(coll, id) ==
    IF IndexOf(coll, "_id", id) = 0 THEN None ELSE Get(find_one(coll, "_id", id), "embedding")

(* C1: calculate_match_score never raises on a pair with non-empty texts,   *)
(* whatever store read, store write or provider call fails while it         *)
(* resolves an embedding: it returns a number.                              *)
C1_NeverRaises ==
    \A p \in Procs :
        (/\ ScoredPair(p)
         /\ CallTexts(loc[p]).candidate # <<>>
         /\ CallTexts(loc[p]).job # <<>>)
        => ~loc[p].exc

(* C2: no candidate record that find_matching_candidates_for_job returns    *)
(* carries the password field.                                              *)
C2_NoPasswordReturned ==
    \A p \in Procs :
        (loc[p].op = "recommended_candidates" /\ resp[p].kind = "list")
        => \A i \in 1..Len(resp[p].value) : "password" \notin DOMAIN resp[p].value[i]

(* C3: for one job-scoped operation, the outcome of a malformed job id      *)
(* differs from the outcome of a well-formed id that matches no job.        *)
C3_MalformedDistinct ==
    \A p \in Procs, q \in Procs :
        (/\ pc[p] = "idle" /\ pc[q] = "idle"
         /\ loc[p].op = loc[q].op
         /\ loc[p].id_class = "malformed"
         /\ loc[q].id_class = "missing")
        => resp[p] # resp[q]

(* C4: every score calculate_match_score returns is in [0, 1] and is a      *)
(* multiple of 0.001.                                                       *)
C4_ScoreInUnitRange ==
    \A p \in Procs :
        (ScoredPair(p) /\ ~loc[p].exc)
        => /\ 0 <= loc[p].score /\ loc[p].score <= Scale
           /\ loc[p].score % (Scale \div 1000) = 0

(* A call returned a score for a pair whose cosine similarity is negative   *)
(* and whose weighted sum exceeds 1.                                        *)
C4_Witness ==
    \E p \in Procs :
        /\ ScoredPair(p) /\ ~loc[p].exc
        /\ loc[p].candidate_emb # None /\ loc[p].job_emb # None
        /\ cosine_similarity(loc[p].candidate_emb, loc[p].job_emb) < 0
        /\ weighted_sum(cosine_similarity(loc[p].candidate_emb, loc[p].job_emb),
                        calculate_skill_match(loc[p].candidate, loc[p].job),
                        calculate_experience_boost(loc[p].candidate)) > Scale
        /\ loc[p].score = Scale

(* C5 as stated: a call for a pair that was scored before with both         *)
(* embeddings persisted, and not edited since, makes no provider call and   *)
(* returns the score returned before.                                       *)
C5_CacheHit ==
    \A p \in Procs :
        (ScoredPair(p) /\ loc[p].prev # -1)
        => /\ loc[p].cms_calls = 0
           /\ ~loc[p].exc => loc[p].score = loc[p].prev

(* C5, amended: the same, for the calls whose store reads all succeed.      *)
C5_CacheHitWhenReadsSucceed ==
    \A p \in Procs :
        (ScoredPair(p) /\ loc[p].prev # -1 /\ loc[p].cms_nf = 0)
        => /\ ~loc[p].exc
           /\ loc[p].cms_calls = 0
           /\ loc[p].score = loc[p].prev

(* A second call for a pair found both embeddings, each written once by an  *)
(* earlier call, and returned the earlier score without a provider call.    *)
C5_Witness ==
    \E p \in Procs :
        /\ ScoredPair(p) /\ ~loc[p].exc
        /\ loc[p].prev # -1 /\ loc[p].cms_nf = 0
        /\ loc[p].cms_calls = 0 /\ loc[p].score = loc[p].prev
        /\ loc[p].score > 0
        /\ written[loc[p].candidate["_id"]] = 1
        /\ written[loc[p].job["_id"]] = 1

(* C6: with an empty text on either side calculate_match_score returns 0.0  *)
(* without a provider call and without a store access.                      *)
C6_EmptyTextScoresZero ==
    \A p \in Procs :
        (/\ ScoredPair(p)
         /\ \/ CallTexts(loc[p]).candidate = <<>>
            \/ CallTexts(loc[p]).job = <<>>)
        => /\ ~loc[p].exc
           /\ loc[p].score = 0
           /\ loc[p].cms_calls = 0
           /\ loc[p].cms_io = 0

(* A call returned for a candidate whose text is empty and who carries a    *)
(* stored embedding, against a job with required skills.                    *)
C6_Witness ==
    \E p \in Procs :
        /\ ScoredPair(p)
        /\ CallTexts(loc[p]).candidate = <<>>
        /\ CallTexts(loc[p]).job # <<>>
        /\ Truthy(loc[p].candidate, "embedding")
        /\ Truthy(loc[p].job, "required_skills")
        /\ loc[p].score = 0

(* An edit leaves the embedding of every record that stays as it was. *)
EditKeepsEmbeddings ==
    budget'.edits < budget.edits
    => /\ \A i \in 1..Len(cands) :
              IndexOf(cands', "_id", cands[i]["_id"]) # 0
              => StoredEmbedding(cands', cands[i]["_id"]) = Get(cands[i], "embedding")
       /\ \A i \in 1..Len(jobs) :
              IndexOf(jobs', "_id", jobs[i]["_id"]) # 0
              => StoredEmbedding(jobs', jobs[i]["_id"]) = Get(jobs[i], "embedding")

(* The embeddings a returned call scored with are the stored ones, for each *)
(* side whose record is stored with an embedding.                           *)
UsedStoredEmbeddings(p) ==
    LET l == loc[p]
    IN  /\ Persisted(cands, l.candidate["_id"])
           => l.candidate_emb = StoredEmbedding(cands, l.candidate["_id"])
        /\ Persisted(jobs, l.job["_id"])
           => l.job_emb = StoredEmbedding(jobs, l.job["_id"])

(* The call of handler p scored two stored records with non-empty texts. *)
ScoredStoredPair(p) ==
    /\ ScoredPair(p) /\ ~loc[p].exc /\ HasPair(loc[p])
    /\ CallTexts(loc[p]).candidate # <<>>
    /\ CallTexts(loc[p]).job # <<>>

(* C7 as stated: no edit changes a stored embedding, and every call of      *)
(* calculate_match_score scores with the stored embeddings.                 *)
C7_NoInvalidation ==
    /\ [][EditKeepsEmbeddings]_vars
    /\ [](\A p \in Procs : ScoredStoredPair(p) => UsedStoredEmbeddings(p))

(* C7, amended: the same, for the calls whose store reads all succeed.      *)
C7_NoInvalidationWhenReadsSucceed ==
    /\ [][EditKeepsEmbeddings]_vars
    /\ [](\A p \in Procs :
             (ScoredStoredPair(p) /\ loc[p].cms_nf = 0) => UsedStoredEmbeddings(p))

(* A call scored an edited candidate with the embedding stored before the   *)
(* edit, which is no longer the embedding of the candidate's text.          *)
C7_Witness ==
    \E p \in Procs :
        /\ ScoredStoredPair(p) /\ loc[p].cms_nf = 0
        /\ edited[loc[p].candidate["_id"]] >= 1
        /\ Persisted(cands, loc[p].candidate["_id"])
        /\ loc[p].candidate_emb = StoredEmbedding(cands, loc[p].candidate["_id"])
        /\ loc[p].candidate_emb # model_encode(CallTexts(loc[p]).candidate)
        /\ loc[p].cms_calls = 0

(* C8: the embedding stored on a record that was not edited is the          *)
(* embedding of the record's text, however the handlers' writes interleave. *)
C8_RaceConverges ==
    /\ \A i \in 1..Len(cands) :
           (edited[cands[i]["_id"]] = 0 /\ Truthy(cands[i], "embedding"))
           => cands[i]["embedding"] = model_encode(extract_candidate_text(cands[i]))
    /\ \A i \in 1..Len(jobs) :
           (edited[jobs[i]["_id"]] = 0 /\ Truthy(jobs[i], "embedding"))
           => jobs[i]["embedding"] = model_encode(extract_job_text(jobs[i]))

(* Both handlers wrote the embedding of the same candidate and of the same  *)
(* job, and both requests have answered.                                    *)
C8_Witness ==
    /\ \A p \in Procs : pc[p] = "idle" /\ resp[p].kind # "none"
    /\ \E i \in 1..Len(cands) :
           /\ written[cands[i]["_id"]] = 2 /\ edited[cands[i]["_id"]] = 0
           /\ cands[i]["embedding"] = model_encode(extract_candidate_text(cands[i]))
    /\ \E i \in 1..Len(jobs) :
           /\ written[jobs[i]["_id"]] = 2 /\ edited[jobs[i]["_id"]] = 0
           /\ jobs[i]["embedding"] = model_encode(extract_job_text(jobs[i]))

(* C9: find_matching_jobs_for_candidate and                                 *)
(* find_matching_candidates_for_job never raise: each request of theirs     *)
(* ends with a list (the route turns an empty one into its 404).            *)
C9_SearchNeverRaises ==
    \A p \in Procs :
        (/\ loc[p].op \in {"recommended_jobs", "recommended_candidates"}
         /\ pc[p] = "idle")
        => resp[p].kind # "raised"

(* C10: requests one after the other write the embedding of a record that   *)
(* is not edited at most once, and never that of a record with empty text.  *)
C10_WrittenAtMostOnce ==
    /\ \A id \in RecordIds : edited[id] = 0 => written[id] <= 1
    /\ \A i \in 1..Len(cands) :
           (edited[cands[i]["_id"]] = 0 /\ extract_candidate_text(cands[i]) = <<>>)
           => written[cands[i]["_id"]] = 0 /\ ~Truthy(cands[i], "embedding")
    /\ \A i \in 1..Len(jobs) :
           (edited[jobs[i]["_id"]] = 0 /\ extract_job_text(jobs[i]) = <<>>)
           => written[jobs[i]["_id"]] = 0 /\ ~Truthy(jobs[i], "embedding")

(* Two requests that reach every job have answered: the job with a text was *)
(* written once, the job with no text never.                                *)
C10_Witness ==
    /\ budget.reqs = 0 /\ pc[1] = "idle" /\ budget.edits = MaxEdits
    /\ loc[1].op \in {"recommended_jobs", "bulk_embed"}
    /\ Len(jobs) = 2
    /\ \E i \in 1..Len(jobs), j \in 1..Len(jobs) :
           /\ written[jobs[i]["_id"]] = 1 /\ Truthy(jobs[i], "embedding")
           /\ extract_job_text(jobs[j]) = <<>> /\ written[jobs[j]["_id"]] = 0
    /\ \A i \in 1..Len(cands) : written[cands[i]["_id"]] = 1


(* The ids of the jobs of coll with no embedding field, of the given source *)
(* when one is given.                                                       *)
LackingEmbedding(coll, source) ==
    {coll[n]["_id"] : n \in {m \in 1..Len(coll) :
        /\ "embedding" \notin DOMAIN coll[m]
        /\ (source = "" \/ ("source" \in DOMAIN coll[m] /\ coll[m]["source"] = source))}}

(* A call of bulk_embed_jobs starts: the jobs it will visit are the jobs    *)
(* with no embedding, each once; with none to visit it returns 0.           *)
BulkVisitsLacking ==
    \A p \in Procs :
        (pc[p] = "idle" /\ budget'.reqs < budget.reqs /\ loc'[p].op = "bulk_embed")
        => LET lacking == LackingEmbedding(jobs, loc'[p].source)
           IN  IF lacking = {}
               THEN pc'[p] = "idle" /\ resp'[p] = Ok("count", 0)
               ELSE /\ pc'[p] = "bulk_embed" /\ loc'[p].i = 1
                    /\ Len(loc'[p].items) = Cardinality(lacking)
                    /\ {loc'[p].items[k]["_id"] : k \in 1..Len(loc'[p].items)} = lacking

(* One turn of the loop of bulk_embed_jobs: whether or not it failed, the   *)
(* loop goes on to the next job or returns the number of jobs it visited;   *)
(* a turn that did not fail on a job with a text persists that text's       *)
(* embedding; no other record changes.                                      *)
BulkTurnGoesOn ==
    \A p \in Procs :
        pc[p] = "bulk_embed"
        => LET l    == loc[p]
               job  == l.items[l.i]
               text == extract_job_text(job)
           IN  /\ IF l.i < Len(l.items)
                  THEN pc'[p] = "bulk_embed" /\ loc'[p].i = l.i + 1 /\ loc'[p].items = l.items
                  ELSE pc'[p] = "idle" /\ resp'[p] = Ok("count", Len(l.items))
               /\ (budget'.faults = budget.faults /\ text # <<>>)
                  => StoredEmbedding(jobs', job["_id"]) = model_encode(text)
               /\ Len(jobs') = Len(jobs)
               /\ \A n \in 1..Len(jobs) : jobs[n]["_id"] # job["_id"] => jobs'[n] = jobs[n]
               /\ cands' = cands

(* C11: bulk_embed_jobs visits exactly the jobs that lack an embedding (of  *)
(* the given source when one is given), a provider or store failure on one  *)
(* job does not keep the later jobs from being embedded and persisted, the  *)
(* jobs that had an embedding are left as they were, and the call returns   *)
(* the number of jobs it visited.                                           *)
C11_BulkCompletes ==
    /\ [][BulkVisitsLacking]_vars
    /\ [][BulkTurnGoesOn]_vars
    /\ [](\A p \in Procs : (loc[p].op = "bulk_embed" /\ pc[p] = "idle")
                              => resp[p].kind = "count")

(* A call visited two jobs: the embedding of the first failed, that of the  *)
(* second was persisted, and the call returned 2.                           *)
C11_Witness ==
    /\ pc[1] = "idle" /\ loc[1].op = "bulk_embed" /\ resp[1] = Ok("count", 2)
    /\ budget.reqs = MaxReqs - 1 /\ budget.faults = MaxFaults - 1
    /\ Len(jobs) = 2
    /\ extract_job_text(jobs[1]) # <<>> /\ "embedding" \notin DOMAIN jobs[1]
    /\ StoredEmbedding(jobs, jobs[2]["_id"]) = model_encode(extract_job_text(jobs[2]))
    /\ written[jobs[2]["_id"]] = 1


(* Handler p is in, or has just left, the call of calculate_match_score     *)
(* that find_matching_candidates_for_job makes for one candidate.           *)
FcScoring(p) ==
    /\ pc[p] \in {"cms_enter", "cms_candidate", "cms_candidate_embed", "cms_job",
                  "cms_job_embed", "fc_collect"}
    /\ loc[p].ret = "fc_collect"
    /\ loc[p].candidate # None /\ loc[p].job # None

(* find_matching_candidates_for_job has returned its list for a job it found. *)
FcCompleted(p) ==
    /\ pc[p] = "idle" /\ loc[p].op = "recommended_candidates"
    /\ loc[p].id_class = "found" /\ resp[p].kind = "list"

(* Every candidate with a text is stored with an embedding. *)
CandidatesPersisted ==
    \A n \in 1..Len(cands) :
        extract_candidate_text(cands[n]) # <<>> => Persisted(cands, cands[n]["_id"])

(* While a candidate is scored, and when its score is there, the candidate  *)
(* with a text is stored with an embedding.                                 *)
PersistedBeforeScored(p) ==
    (FcScoring(p) /\ extract_candidate_text(loc[p].candidate) # <<>>)
    => Persisted(cands, loc[p].candidate["_id"])

(* The score that is there was computed from the candidate's stored vector. *)
ScoredFromPersisted(p) ==
    loc[p].candidate_emb = StoredEmbedding(cands, loc[p].candidate["_id"])

(* The call for one candidate returned a score for two non-empty texts. *)
FcScored2(p) ==
    /\ FcScoring(p) /\ pc[p] = "fc_collect" /\ ~loc[p].exc
    /\ extract_candidate_text(loc[p].candidate) # <<>>
    /\ extract_job_text(loc[p].job) # <<>>

(* C12 as stated: after find_matching_candidates_for_job completes for an   *)
(* existing job, the job and every candidate with a text carry a persisted  *)
(* embedding, each candidate's embedding was persisted before its score was *)
(* computed, and the score was computed from the persisted vector.          *)
C12_PersistedBeforeScoring ==
    \A p \in Procs :
        /\ FcCompleted(p)
           => /\ Persisted(jobs, ObjectId(loc[p].job_id))
              /\ CandidatesPersisted
        /\ PersistedBeforeScored(p)
        /\ FcScored2(p) => ScoredFromPersisted(p)

(* C12, amended: the job carries a persisted embedding when its text is not *)
(* empty, and the score is computed from the persisted vector by the calls  *)
(* whose store reads succeed.                                               *)
C12_PersistedWhenTextAndReadsSucceed ==
    \A p \in Procs :
        /\ FcCompleted(p)
           => /\ extract_job_text(find_one(jobs, "_id", ObjectId(loc[p].job_id))) # <<>>
                 => Persisted(jobs, ObjectId(loc[p].job_id))
              /\ CandidatesPersisted
        /\ PersistedBeforeScored(p)
        /\ (FcScored2(p) /\ loc[p].cms_nf = 0) => ScoredFromPersisted(p)

(* The first request was a search of candidates for a job: it wrote the     *)
(* job's embedding and every candidate's, and returned a positive score.    *)
C12_Witness ==
    /\ FcCompleted(1) /\ budget.reqs = MaxReqs - 1
    /\ written[ObjectId(loc[1].job_id)] = 1
    /\ Persisted(jobs, ObjectId(loc[1].job_id))
    /\ \E n \in 1..Len(cands) :
           /\ extract_candidate_text(cands[n]) # <<>>
           /\ written[cands[n]["_id"]] = 1
           /\ Persisted(cands, cands[n]["_id"])
    /\ resp[1].value[1]["match_score"] > 0


(* A search has returned its list; `coll` is the collection it ranked. *)
SearchReturned(p) ==
    /\ pc[p] = "idle" /\ resp[p].kind = "list"
    /\ loc[p].op \in {"recommended_jobs", "recommended_candidates"}

RankedCollection(p) == IF loc[p].op = "recommended_jobs" THEN jobs ELSE cands

(* C13: the list a search returns is ordered by non-increasing match_score, *)
(* and two entries of equal score are in the order in which the store       *)
(* returned their records.                                                  *)
C13_SortedStable ==
    \A p \in Procs :
        SearchReturned(p)
        => LET v == resp[p].value
           IN  \A i \in 1..Len(v), j \in 1..Len(v) :
                   i < j
                   => /\ v[i]["match_score"] >= v[j]["match_score"]
                      /\ v[i]["match_score"] = v[j]["match_score"]
                         => IndexOf(RankedCollection(p), "_id", v[i]["_id"])
                              < IndexOf(RankedCollection(p), "_id", v[j]["_id"])

(* A search returned two entries of equal score. *)
C13_Witness ==
    \E p \in Procs :
        /\ SearchReturned(p) /\ Len(resp[p].value) = 2
        /\ resp[p].value[1]["match_score"] = resp[p].value[2]["match_score"]
        /\ resp[p].value[1]["_id"] # resp[p].value[2]["_id"]


(* The jobs of coll a search with the given source filter ranks: all of     *)
(* them without a filter, else those whose source field is the filter.      *)
MatchingFilter(coll, source) ==
    {n \in 1..Len(coll) :
        source = "" \/ ("source" \in DOMAIN coll[n] /\ coll[n]["source"] = source)}

(* find_matching_jobs_for_candidate has returned its list. *)
FjReturned(p) == pc[p] = "idle" /\ loc[p].op = "recommended_jobs" /\ resp[p].kind = "list"

(* The returned list has min(top_n, matching jobs) entries, all of them of  *)
(* the source asked for.                                                    *)
FjCountAndFilter(p) ==
    LET v == resp[p].value
    IN  /\ Len(v) <= loc[p].top_n
        /\ Len(v) = Min(loc[p].top_n, Cardinality(MatchingFilter(jobs, loc[p].source)))
        /\ \A i \in 1..Len(v) :
               loc[p].source # ""
               => "source" \in DOMAIN v[i] /\ v[i]["source"] = loc[p].source

(* The last job is scored: no job left out of the result scores higher than *)
(* a job kept in it.                                                        *)
FjKeepsHighest(p) ==
    (pc[p] = "fj_collect" /\ ~loc[p].exc /\ loc[p].i = Len(loc[p].items))
    => LET all  == FjScored(loc[p])
           kept == FjResult(loc[p])
       IN  \A a \in 1..Len(all) :
               (\A k \in 1..Len(kept) : kept[k]["_id"] # all[a]["_id"])
               => \A k \in 1..Len(kept) : kept[k]["match_score"] >= all[a]["match_score"]

(* C14 as stated: find_matching_jobs_for_candidate returns                  *)
(* min(top_n, number of jobs matching the filter) entries, every one of the *)
(* source asked for, and the entries kept are the highest-scoring ones.     *)
C14_TopNAndFilter ==
    \A p \in Procs :
        /\ FjReturned(p) => FjCountAndFilter(p)
        /\ FjKeepsHighest(p)

(* C14, amended: the same, for an email that matches a candidate.           *)
C14_TopNAndFilterWhenCandidateFound ==
    \A p \in Procs :
        /\ (FjReturned(p) /\ IndexOf(cands, "email", loc[p].email) # 0)
           => FjCountAndFilter(p)
        /\ FjKeepsHighest(p)

(* A search with top_n = 1 over two jobs returned the second job the store  *)
(* holds, with a positive score.                                            *)
C14_Witness ==
    \E p \in Procs :
        /\ FjReturned(p) /\ loc[p].top_n = 1 /\ loc[p].source = ""
        /\ IndexOf(cands, "email", loc[p].email) # 0
        /\ Len(jobs) = 2 /\ Len(resp[p].value) = 1
        /\ resp[p].value[1]["_id"] = jobs[2]["_id"]
        /\ resp[p].value[1]["match_score"] > 0


(* A side with no identity is resolved by encoding its text: the step       *)
(* writes nothing to the store, and the vector it leaves is the encoding.   *)
TransientSideNotStored ==
    \A p \in Procs :
        /\ (pc[p] = "cms_candidate" /\ ~Truthy(loc[p].candidate, "_id"))
           => /\ cands' = cands /\ jobs' = jobs /\ written' = written
              /\ pc'[p] = "cms_job"
                 => loc'[p].candidate_emb
                      = model_encode(extract_candidate_text(loc[p].candidate))
        /\ (pc[p] = "cms_job" /\ ~Truthy(loc[p].job, "_id"))
           => /\ cands' = cands /\ jobs' = jobs /\ written' = written
              /\ ~loc'[p].exc
                 => loc'[p].job_emb = model_encode(extract_job_text(loc[p].job))

(* Handler p resolves a side that has an identity and a persisted embedding. *)
ResolvesPersistedCandidate(p) ==
    /\ pc[p] = "cms_candidate" /\ Truthy(loc[p].candidate, "_id")
    /\ Persisted(cands, loc[p].candidate["_id"])

ResolvesPersistedJob(p) ==
    /\ pc[p] = "cms_job" /\ Truthy(loc[p].job, "_id")
    /\ Persisted(jobs, loc[p].job["_id"])

(* The step leaves the persisted embedding as the side's vector, without a  *)
(* provider call.                                                           *)
TakesPersistedCandidate(p) ==
    /\ loc'[p].candidate_emb = StoredEmbedding(cands, loc[p].candidate["_id"])
    /\ loc'[p].cms_calls = loc[p].cms_calls

TakesPersistedJob(p) ==
    /\ loc'[p].job_emb = StoredEmbedding(jobs, loc[p].job["_id"])
    /\ loc'[p].cms_calls = loc[p].cms_calls

(* C15 as stated: a side without an identity is scored with the encoding of *)
(* its text and nothing is written to the store for it; a side with an      *)
(* identity uses the persisted embedding when one exists.                   *)
C15_TransientNotStored ==
    /\ [][TransientSideNotStored]_vars
    /\ [][\A p \in Procs :
             /\ ResolvesPersistedCandidate(p) => TakesPersistedCandidate(p)
             /\ ResolvesPersistedJob(p) => TakesPersistedJob(p)]_vars

(* C15, amended: a side with an identity uses the persisted embedding when  *)
(* one exists and the store read succeeds.                                  *)
C15_TransientNotStoredPersistedUsedWhenRead ==
    /\ [][TransientSideNotStored]_vars
    /\ [][\A p \in Procs :
             budget'.faults = budget.faults
             => /\ ResolvesPersistedCandidate(p) => TakesPersistedCandidate(p)
                /\ ResolvesPersistedJob(p) => TakesPersistedJob(p)]_vars

(* A call given a candidate with no identity and a stored job returned: the *)
(* candidate was encoded, the job's persisted embedding was used, and no    *)
(* candidate record was written.                                            *)
C15_Witness ==
    /\ pc[1] = "ds_return" /\ ~loc[1].exc
    /\ ~Truthy(loc[1].candidate, "_id") /\ Truthy(loc[1].job, "_id")
    /\ loc[1].candidate_emb = model_encode(extract_candidate_text(loc[1].candidate))
    /\ loc[1].job_emb = StoredEmbedding(jobs, loc[1].job["_id"])
    /\ loc[1].cms_calls = 1 /\ loc[1].cms_io = 1
    /\ \A id \in CandIds : written[id] = 0
    /\ \A n \in 1..Len(cands) : ~Truthy(cands[n], "embedding")
    /\ loc[1].score > 0


(* Handler p starts a search whose identity matches no record: an email no  *)
(* candidate has, or a well-formed job id no job has.                       *)
StartsSearchOfMissing(p) ==
    /\ pc[p] = "idle" /\ budget'.reqs < budget.reqs
    /\ \/ /\ loc'[p].op = "recommended_jobs"
          /\ IndexOf(cands, "email", loc'[p].email) = 0
       \/ /\ loc'[p].op = "recommended_candidates"
          /\ ObjectIdValid(loc'[p].job_id)
          /\ IndexOf(jobs, "_id", ObjectId(loc'[p].job_id)) = 0

(* C16: a search for an email that matches no candidate, or for a           *)
(* well-formed job id that matches no job, returns the empty list at once:  *)
(* it does not raise, calls no provider and writes nothing to the store.    *)
C16_NotFoundEmpty ==
    [][\A p \in Procs :
          StartsSearchOfMissing(p)
          => /\ pc'[p] = "idle"
             /\ resp'[p].kind \in {"list", "error"}
             /\ resp'[p].value = <<>>
             /\ loc'[p].calls = 0
             /\ cands' = cands /\ jobs' = jobs /\ written' = written
             /\ budget'.faults = budget.faults]_vars

(* After a first request embedded records, a search of jobs for an email no *)
(* candidate has returned the empty list: the store holds a job.            *)
C16_Witness ==
    \E p \in Procs :
        /\ pc[p] = "idle" /\ loc[p].op = "recommended_jobs"
        /\ IndexOf(cands, "email", loc[p].email) = 0
        /\ resp[p] = Ok("list", <<>>)
        /\ budget.reqs = 0 /\ budget.faults = MaxFaults
        /\ Len(jobs) >= 1
        /\ \E id \in RecordIds : written[id] = 1

(* analyze_skill_gaps has returned to handler p. *)
SkillGapReturned(p) == pc[p] = "idle" /\ loc[p].op = "skill_gap"

(* The email or the job id of the request resolves to no record. *)
SkillGapUnresolved(p) ==
    \/ IndexOf(cands, "email", loc[p].email) = 0
    \/ ~ObjectIdValid(loc[p].job_id)
    \/ IndexOf(jobs, "_id", ObjectId(loc[p].job_id)) = 0

(* A step of analyze_skill_gaps: its first or its second. *)
SkillGapStep(p) ==
    \/ pc[p] = "gap_job"
    \/ pc[p] = "idle" /\ pc'[p] = "gap_job"

(* C17: analyze_skill_gaps returns an error outcome, with none of the       *)
(* result fields, when the email or the job id resolves to no record; and   *)
(* in no outcome does it write to the store or call the provider.           *)
C17_SkillGapError ==
    /\ [](\A p \in Procs :
             (SkillGapReturned(p) /\ SkillGapUnresolved(p))
             => /\ resp[p].kind = "error"
                /\ DOMAIN resp[p].value = {"error"})
    /\ [][\A p \in Procs :
             SkillGapStep(p)
             => /\ cands' = cands /\ jobs' = jobs /\ written' = written
                /\ budget'.faults = budget.faults
                /\ loc'[p].calls = 0]_vars

(* analyze_skill_gaps returned its error for an email no candidate has and  *)
(* the id of a stored job.                                                  *)
C17_Witness ==
    \E p \in Procs :
        /\ SkillGapReturned(p)
        /\ IndexOf(cands, "email", loc[p].email) = 0
        /\ ObjectIdValid(loc[p].job_id)
        /\ IndexOf(jobs, "_id", ObjectId(loc[p].job_id)) # 0
        /\ resp[p].kind = "error"
        /\ resp[p].value = [error |-> "Candidate or job not found"]


(* The multiple of 0.001 nearest to x in [0, 1]; of two equally near the    *)
(* even one.                                                                *)
RefRound3(x) ==
    LET unit == Scale \div 1000
        lo   == x \div unit
    IN  IF x - lo * unit < (lo + 1) * unit - x THEN lo * unit
        ELSE IF x - lo * unit > (lo + 1) * unit - x THEN (lo + 1) * unit
        ELSE IF lo % 2 = 0 THEN lo * unit ELSE (lo + 1) * unit

(* The semantic similarity: 0.0 with an absent or a zero vector, else the   *)
(* cosine.                                                                  *)
RefSemantic(a, b) ==
    IF a = None \/ b = None THEN 0
    ELSE IF Dot(a, a) = 0 \/ Dot(b, b) = 0 THEN 0
    ELSE (Dot(a, b) * Scale) \div (Norm(a) * Norm(b))

(* clamp(0.6 * semantic + 0.3 * skill_match + 0.1 * experience_boost, 0, 1) *)
(* rounded to 3 decimals.                                                   *)
RefScore(candidate, job, a, b) ==
    LET sum == (6 * RefSemantic(a, b) + 3 * calculate_skill_match(candidate, job)
                  + calculate_experience_boost(candidate)) \div 10
    IN  IF sum <= 0 THEN 0
        ELSE IF sum >= Scale THEN Scale
        ELSE RefRound3(sum)

(* C18: the composite score is clamp(0.6 * semantic + 0.3 * skill_match +   *)
(* 0.1 * experience_boost, 0, 1) rounded to 3 decimals, where semantic is   *)
(* 0.0 when either embedding is absent or has zero magnitude.               *)
C18_CompositeScore ==
    \A p \in Procs :
        /\ (pc[p] = "ds_return" /\ ~loc[p].exc
              /\ CallTexts(loc[p]).candidate # <<>> /\ CallTexts(loc[p]).job # <<>>)
           => loc[p].score = RefScore(loc[p].candidate, loc[p].job,
                                      loc[p].candidate_emb, loc[p].job_emb)
        /\ resp[p].kind = "final"
           => LET v == resp[p].value
              IN  /\ v.score = RefScore(v.candidate, v.job, v.candidate_emb, v.job_emb)
                  /\ (\/ v.candidate_emb \in {None, <<0, 0>>}
                      \/ v.job_emb \in {None, <<0, 0>>})
                     => v.score = RefScore(v.candidate, v.job, None, None)

(* The score of a zero candidate vector against a provider's job vector is  *)
(* the rounded 0.3 * 0.8 + 0.1 * 0.05.                                      *)
C18_Witness ==
    \E p \in Procs :
        /\ resp[p].kind = "final"
        /\ resp[p].value.candidate_emb = <<0, 0>>
        /\ resp[p].value.job_emb = <<3, 4>>
        /\ calculate_skill_match(resp[p].value.candidate, resp[p].value.job) = 8 * (Scale \div 10)
        /\ resp[p].value.score = 245 * (Scale \div 1000)

(* The level the candidate's name -> level map holds for a name: that of    *)
(* the last skill with the name, whatever the case; none without one.       *)
RefLevel(skills, name) ==
    LET hits == {k \in 1..Len(skills) :
                    HasName(skills[k]) /\ Lower(skills[k].name) = Lower(name)}
    IN  IF hits = {} THEN <<>>
        ELSE <<skills[CHOOSE k \in hits : \A h \in hits : h <= k].level>>

RECURSIVE RefLevels(_, _)
(* The sum, over the required occurrences, of the level of a skill the      *)
(* candidate has and of 0 for one the candidate lacks.                      *)
RefLevels(skills, required) ==
    IF required = <<>> THEN 0
    ELSE (IF RefLevel(skills, required[1]) = <<>> THEN 0
          ELSE RefLevel(skills, required[1])[1])
         + RefLevels(skills, Tail(required))

(* A call of skill_match has returned. *)
SkillMatchReturned(p) == resp[p].kind = "skill_match"

(* C19: skill_match returns a value in [0,1] equal to the sum, over the     *)
(* required-skill occurrences, of level/100 for a skill in the candidate's  *)
(* case-insensitive name -> level map (the last occurrence of a name) and   *)
(* of 0 for another, divided by the number of occurrences; 0.0 when the job *)
(* requires no skill or the candidate has none.                             *)
C19_SkillMatchValue ==
    \A p \in Procs :
        SkillMatchReturned(p)
        => LET v        == resp[p].value
               skills   == Get(v.candidate, "skills")
               required == Get(v.job, "required_skills")
           IN  /\ 0 <= v.value /\ v.value <= Scale
               /\ (required = <<>> \/ skills = <<>>) => v.value = 0
               /\ (required # <<>> /\ skills # <<>>)
                  => v.value = (RefLevels(skills, required) * Scale) \div (100 * Len(required))

(* The same formula for the candidates whose levels are within 0..100. *)
C19_ValueOfLevelsInRange ==
    \A p \in Procs :
        SkillMatchReturned(p)
        => LET v        == resp[p].value
               skills   == Get(v.candidate, "skills")
               required == Get(v.job, "required_skills")
           IN  /\ (\A k \in 1..Len(skills) : skills[k].level \in 0..100)
                  => 0 <= v.value /\ v.value <= Scale
               /\ (required = <<>> \/ skills = <<>>) => v.value = 0
               /\ (required # <<>> /\ skills # <<>>)
                  => v.value = (RefLevels(skills, required) * Scale) \div (100 * Len(required))

Upper(s) == [i \in 1..Len(s) |-> UpperChar(s[i])]

(* The candidate with the name of skill k in the case f gives it. *)
RecasedSkills(candidate, f(_)) ==
    { SetField(candidate, "skills",
               [i \in 1..Len(candidate.skills) |->
                   IF i = k THEN SetField(candidate.skills[i], "name", f(candidate.skills[i].name))
                   ELSE candidate.skills[i]])
        : k \in 1..Len(candidate.skills) }

(* The job with required skill k in the case f gives it. *)
RecasedRequired(job, f(_)) ==
    { SetField(job, "required_skills",
               [i \in 1..Len(job.required_skills) |->
                   IF i = k THEN f(job.required_skills[i]) ELSE job.required_skills[i]])
        : k \in 1..Len(job.required_skills) }

(* The job with its required skills in every order. *)
Permuted(job) ==
    LET n == Len(job.required_skills)
    IN  { SetField(job, "required_skills", [i \in 1..n |-> job.required_skills[f[i]]])
            : f \in {g \in [1..n -> 1..n] : \A i, j \in 1..n : g[i] = g[j] => i = j} }

(* The float returned is the same whatever the case of a name. *)
CaseInvariant(v) ==
    /\ \A c \in RecasedSkills(v.candidate, Upper) \cup RecasedSkills(v.candidate, Lower) :
           calculate_skill_match_binary64(c, v.job) = v.binary64
    /\ \A j \in RecasedRequired(v.job, Upper) \cup RecasedRequired(v.job, Lower) :
           calculate_skill_match_binary64(v.candidate, j) = v.binary64

(* The required occurrences the candidate has a skill for. *)
Matched(v) ==
    {i \in 1..Len(v.job.required_skills) :
        RefLevel(v.candidate.skills, v.job.required_skills[i]) # <<>>}

(* C20: skill_match(candidate, job) is unchanged when the case of a         *)
(* candidate skill name or of a required skill name is changed, and when    *)
(* the required_skills list is permuted.                                    *)
C20_CaseAndOrderInvariant ==
    \A p \in Procs :
        SkillMatchReturned(p)
        => /\ CaseInvariant(resp[p].value)
           /\ \A j \in Permuted(resp[p].value.job) :
                  calculate_skill_match_binary64(resp[p].value.candidate, j)
                      = resp[p].value.binary64

(* C20, amended: the float is unchanged under a change of case; under a     *)
(* permutation of required_skills the exact quotient is unchanged, and the  *)
(* float is unchanged when at most two required occurrences are matched.    *)
C20_CaseInvariantOrderUpToRounding ==
    \A p \in Procs :
        SkillMatchReturned(p)
        => LET v == resp[p].value
           IN  /\ CaseInvariant(v)
               /\ \A j \in Permuted(v.job) :
                      /\ calculate_skill_match(v.candidate, j) = v.value
                      /\ Cardinality(Matched(v)) <= 2
                         => calculate_skill_match_binary64(v.candidate, j) = v.binary64

(* A call with three matched skills has returned 0.1 in the exact           *)
(* arithmetic, and one has returned the same value for p required in upper  *)
(* case as for p.                                                           *)
C20_Witness ==
    \E p \in Procs :
        /\ SkillMatchReturned(p)
        /\ Cardinality(Matched(resp[p].value)) = 3
        /\ resp[p].value.job.required_skills[2] = <<"Q">>
        /\ resp[p].value.value = Scale \div 10
        /\ resp[p].value.binary64 # Zero

(* The lower-cased names the candidate's skills carry. *)
Possessed(candidate) ==
    {Lower(Get(candidate.skills[i], "name")) : i \in 1..Len(candidate.skills)}

(* The lower-cased required skills of the job. *)
RequiredSet(job) == {Lower(job.required_skills[i]) : i \in 1..Len(job.required_skills)}

(* k / n * 100 to the nearest multiple of 0.1, of two equally near the even *)
(* one, in units of 1/Scale.                                                *)
RefPercentage(k, n) ==
    LET tenths == (1000 * k) \div n
        rest   == (1000 * k) % n
    IN  (Scale \div 10)
          * (IF 2 * rest > n \/ (2 * rest = n /\ tenths % 2 = 1) THEN tenths + 1 ELSE tenths)

(* C21: analyze_skill_gaps partitions the case-insensitive set of required  *)
(* skills into matching = required /\ possessed and missing = required      *)
(* minus possessed, disjoint and of union the required set;                 *)
(* match_percentage is |matching| / |required| * 100 rounded to 1 decimal,  *)
(* and 0.0 when no skill is required.                                       *)
C21_SkillGapPartition ==
    \A p \in Procs :
        resp[p].kind = "skill_gaps"
        => LET v        == resp[p].value
               matching == Elements(v.result.matching_skills)
               missing  == Elements(v.result.missing_skills)
               required == RequiredSet(v.job)
           IN  /\ matching = required \cap Possessed(v.candidate)
               /\ missing = required \ Possessed(v.candidate)
               /\ matching \cap missing = {}
               /\ matching \cup missing = required
               /\ Len(v.result.matching_skills) = Cardinality(matching)
               /\ Len(v.result.missing_skills) = Cardinality(missing)
               /\ v.result.match_percentage =
                      IF required = {} THEN 0
                      ELSE RefPercentage(Cardinality(matching), Cardinality(required))

(* One of three required skills is possessed, under a name written in       *)
(* another case: 33.3.                                                      *)
C21_Witness ==
    \E p \in Procs :
        /\ resp[p].kind = "skill_gaps"
        /\ resp[p].value.result.matching_skills = << <<"q">> >>
        /\ resp[p].value.result.missing_skills = << <<"p">>, <<"s">> >>
        /\ Len(resp[p].value.candidate.skills) = 2
        /\ resp[p].value.candidate.skills[2].name = <<"Q">>
        /\ resp[p].value.result.match_percentage = 333 * (Scale \div 10)

(* C22: experience_boost(candidate) = min(0.05 * entries, 0.2): 0.0 for no  *)
(* entries, 0.2 from 4 entries on, and never less than for fewer entries.   *)
C22_ExperienceBoost ==
    \A p \in Procs :
        resp[p].kind = "experience_boost"
        => LET v == resp[p].value
               n == Len(Get(v.candidate, "experience"))
           IN  /\ v.value = (IF 5 * n <= 20 THEN 5 * n ELSE 20) * (Scale \div 100)
               /\ n = 0 => v.value = 0
               /\ n >= 4 => v.value = Scale \div 5
               /\ \A m \in 0..n : calculate_experience_boost(Experienced(m)) <= v.value

(* Ten entries have given 0.2. *)
C22_Witness ==
    \E p \in Procs :
        /\ resp[p].kind = "experience_boost"
        /\ Len(Get(resp[p].value.candidate, "experience")) = 10
        /\ resp[p].value.value = Scale \div 5

RECURSIVE NonEmpty(_)
(* The parts that are not the empty string. *)
NonEmpty(parts) ==
    IF parts = <<>> THEN <<>>
    ELSE (IF parts[1] = <<>> THEN <<>> ELSE <<parts[1]>>) \o NonEmpty(Tail(parts))

(* C24: extract_candidate_text emits only non-empty parts (a skills list    *)
(* none of whose entries has a name contributes none), so that the parts    *)
(* are separated by exactly one space, the result has no leading or         *)
(* trailing space, and the result is empty exactly when no field yields a   *)
(* part. The field values of the candidates called with hold no space.      *)
C24_OnlyNonEmptyParts ==
    \A p \in Procs :
        resp[p].kind = "candidate_text"
        => LET text  == resp[p].value.text
               parts == candidate_text_parts(resp[p].value.candidate)
           IN  /\ \A i \in 1..Len(parts) : parts[i] # <<>>
               /\ text = JoinWith(<<" ">>, NonEmpty(parts))
               /\ \A i \in 1..(Len(text) - 1) : ~(text[i] = " " /\ text[i + 1] = " ")
               /\ text # <<>> => text[1] # " " /\ text[Len(text)] # " "
               /\ text = <<>> <=> NonEmpty(parts) = <<>>

(* The same for the candidates every skill of whom has a name. *)
C24_NonEmptyPartsOfNamedSkills ==
    \A p \in Procs :
        (/\ resp[p].kind = "candidate_text"
         /\ \A i \in 1..Len(resp[p].value.candidate.skills) :
                HasName(resp[p].value.candidate.skills[i]))
        => LET text  == resp[p].value.text
               parts == candidate_text_parts(resp[p].value.candidate)
           IN  /\ \A i \in 1..Len(parts) : parts[i] # <<>>
               /\ text = JoinWith(<<" ">>, parts)
               /\ \A i \in 1..(Len(text) - 1) : ~(text[i] = " " /\ text[i + 1] = " ")
               /\ text # <<>> => text[1] # " " /\ text[Len(text)] # " "
               /\ text = <<>> <=> parts = <<>>

(* The step writes an embedding to the stored candidate of identity id. *)
WritesCandidateEmbedding(id) ==
    /\ IndexOf(cands, "_id", id) # 0
    /\ written'[id] > written[id]

(* C27: an embedding write never persists a vector computed from an older   *)
(* profile than the one stored at the time of the write: the embedding a    *)
(* write leaves on a candidate record is encode(extract_text(profile)) of   *)
(* the profile that record holds.                                           *)
C27_NoStaleEmbeddingWrite ==
    [][\A id \in CandIds :
           WritesCandidateEmbedding(id)
           => LET stored == find_one(cands', "_id", id)
              IN  stored.embedding = model_encode(extract_candidate_text(stored))]_vars

(* The same for the writes of a handler while no other handler has edited   *)
(* the record since the handler read it.                                    *)
C27_NoStaleWriteWithoutEditSinceRead ==
    [][\A id \in CandIds :
           (/\ WritesCandidateEmbedding(id)
            /\ \E p \in Procs :
                   /\ loc[p].candidate # None
                   /\ loc'[p] # loc[p] \/ pc'[p] # pc[p]
                   /\ Project(loc[p].candidate, "embedding")
                        = Project(find_one(cands, "_id", id), "embedding"))
           => LET stored == find_one(cands', "_id", id)
              IN  stored.embedding = model_encode(extract_candidate_text(stored))]_vars

(* C23: every job record a step inserts carries source "hr" or "api", and   *)
(* api jobs are posted by the sentinel.                                     *)
C23_InsertedJobsCarrySource ==
    [][\A i \in 1..Len(jobs') :
           IndexOf(jobs, "_id", jobs'[i]["_id"]) = 0
           => /\ "source" \in DOMAIN jobs'[i]
              /\ jobs'[i].source \in {"hr", "api"}
              /\ jobs'[i].source = "api" => jobs'[i].posted_by = "system@autofetch.ai"]_vars

(* C23, for the jobs search_jobs inserts. *)
C23_FetchedJobsCarrySource ==
    [][\A p \in Procs : \A i \in 1..Len(jobs') :
           pc[p] = "sj_insert" /\ IndexOf(jobs, "_id", jobs'[i]["_id"]) = 0
           => /\ "source" \in DOMAIN jobs'[i]
              /\ jobs'[i].source = "api"
              /\ jobs'[i].posted_by = "system@autofetch.ai"]_vars


(* The jobs a turn of search_jobs' loop leaves collected for the response. *)
Collected(p) == IF pc'[p] = "idle" THEN resp'[p].value.jobs ELSE loc'[p].inserted

(* The turn of handler p's loop inserts its item as an api job and collects *)
(* it for the response, which holds every item once the last is done.       *)
InsertsItem(p) ==
    /\ Len(jobs') = Len(jobs) + 1
    /\ \A i \in 1..Len(jobs) : jobs'[i] = jobs[i]
    /\ LET stored == jobs'[Len(jobs')]
       IN  /\ stored.source = "api"
           /\ stored.title = Get(loc[p].items[loc[p].i], "job_title")
           /\ Collected(p) = Append(loc[p].inserted, Project(stored, "embedding"))
    /\ pc'[p] = "idle" => /\ resp'[p].kind = "fetched"
                          /\ resp'[p].value.count = Len(loc[p].items)
                          /\ Len(resp'[p].value.jobs) = Len(loc[p].items)

(* C26: with auto_store false search_jobs inserts no job and computes no    *)
(* embedding; with auto_store true every item is inserted as an api job and *)
(* returned, whether or not its embedding could be computed.                *)
C26_AutoStoreGovernsStorage ==
    [][\A p \in Procs :
           pc[p] = "sj_insert" /\ (loc'[p] # loc[p] \/ pc'[p] # pc[p])
           => IF loc[p].auto_store
              THEN InsertsItem(p)
              ELSE jobs' = jobs /\ written' = written /\ budget' = budget]_vars

(* C26 as the code has it: every item is inserted as an api job and         *)
(* returned whatever auto_store is; auto_store false only leaves the        *)
(* embedding out.                                                           *)
C26_AutoStoreGovernsEmbedding ==
    [][\A p \in Procs :
           pc[p] = "sj_insert" /\ (loc'[p] # loc[p] \/ pc'[p] # pc[p])
           => /\ InsertsItem(p)
              /\ ~loc[p].auto_store
                     => /\ written' = written /\ budget' = budget
                        /\ "embedding" \notin DOMAIN jobs'[Len(jobs')]]_vars


(* C28: search_jobs asks the API at most MAX_RETRIES times. An answer 200   *)
(* ends the loop; 429 is retried after a delay that grows with the attempt; *)
(* 401 and any other status fail at once; a third 429 fails; and a failing  *)
(* fetch has inserted no job.                                               *)
C28_RetryLoop ==
    [][\A p \in Procs :
           pc[p] = "sj_request" /\ (loc'[p] # loc[p] \/ pc'[p] # pc[p])
           => LET attempt == loc[p].attempt
                  failed == /\ pc'[p] = "idle"
                            /\ resp'[p].kind = "error"
                            /\ jobs' = jobs
                            /\ loc[p].inserted = <<>>
              IN  /\ attempt \in 1..3
                  /\ loc[p].slept = attempt * (attempt - 1)
                  /\ CASE loc'[p].status = 200 ->
                              /\ pc'[p] = "sj_insert" \/ resp'[p].kind = "fetched"
                              /\ loc'[p].attempt = attempt
                              /\ loc'[p].slept = loc[p].slept
                        [] loc'[p].status = 429 ->
                              /\ loc'[p].slept = loc[p].slept + 2 * attempt
                              /\ IF attempt < 3
                                 THEN pc'[p] = "sj_request" /\ loc'[p].attempt = attempt + 1
                                 ELSE failed
                        [] OTHER ->
                              /\ failed
                              /\ loc'[p].attempt = attempt
                              /\ loc'[p].slept = loc[p].slept]_vars

(* A third 429 has ended a fetch in failure, after delays of 2, 4 and 6     *)
(* seconds.                                                                 *)
C28_Witness ==
    \E p \in Procs :
        /\ pc[p] = "idle" /\ loc[p].op = "fetch_jobs"
        /\ loc[p].attempt = 3 /\ loc[p].status = 429 /\ loc[p].slept = 12
        /\ resp[p].kind = "error"


(* C25: no two candidate records share an email, whatever the interleaving  *)
(* of register_candidate calls.                                             *)
C25_UniqueEmails ==
    \A i, k \in 1..Len(cands) : i # k => cands[i].email # cands[k].email

(* C25 for a registration that starts when its email is already stored: it *)
(* is answered 400 and stores nothing.                                      *)
C25_RegisteredEmailRejected ==
    [][\A p \in Procs :
           /\ loc'[p].op = "register_candidate"
           /\ pc[p] = "idle" /\ budget'.reqs < budget.reqs
           /\ resp'[p] # resp[p] \/ pc'[p] # pc[p]
           /\ find_one(cands, "email", loc'[p].email) # None
           => /\ pc'[p] = "idle"
              /\ resp'[p].kind = "error" /\ resp'[p].status = 400
              /\ cands' = cands]_vars

(* C29: the applications collection never holds two records of the same    *)
(* candidate_email and job_id, whatever the interleaving of apply_to_job.   *)
C29_OneApplicationPerCandidateAndJob ==
    \A i, k \in 1..Len(applications) :
        i # k => ~(/\ applications[i].candidate_email = applications[k].candidate_email
                  /\ applications[i].job_id = applications[k].job_id)

(* C29 for an application that starts when one of the same candidate_email *)
(* and job_id is stored: it is answered 400 and changes nothing.            *)
C29_RepeatedApplicationRejected ==
    [][\A p \in Procs :
           /\ loc'[p].op = "apply_to_job"
           /\ pc[p] = "idle" /\ budget'.reqs < budget.reqs
           /\ resp'[p] # resp[p] \/ pc'[p] # pc[p]
           /\ existing_application(loc'[p].email, loc'[p].job_id)
           => /\ pc'[p] = "idle"
              /\ resp'[p].kind = "error" /\ resp'[p].status \in {400, 404}
              /\ applications' = applications]_vars

(* C30: a request that presents a blacklisted token to an authenticated     *)
(* endpoint other than logout is rejected.                                  *)
C30_BlacklistedTokenRejected ==
    [][\A p \in Procs :
           /\ pc[p] = "idle" /\ budget'.reqs < budget.reqs
           /\ resp'[p] # resp[p] \/ pc'[p] # pc[p]
           /\ loc'[p].op \in {"get_my_profile", "apply_to_job", "create_job"}
           /\ is_token_blacklisted(loc'[p].token)
           => /\ pc'[p] = "idle"
              /\ resp'[p].kind = "error"
              /\ resp'[p].status \in {401, 403}]_vars

(* C30 as the code has it: after a logout that was answered 200 the token  *)
(* is in the blacklist, which only logout reads.                            *)
C30_LogoutBlacklists ==
    \A p \in Procs :
        pc[p] = "idle" /\ loc[p].op = "logout" /\ resp[p].kind = "message"
        => is_token_blacklisted(loc[p].token)


=============================================================================
